---- MODULE Spec2Model ----
(***************************************************************************)
(* radical-algebra: enumeration of IDS tree structures (ids.py), the       *)
(* character database and its three indices (character_db.py) and the      *)
(* outer product (tensor.py), RadicalSet (core.py) and the validation of   *)
(* its radicals (validation.py).                                           *)
(*                                                                         *)
(* A character is its Unicode code point (an integer), a Python str is the *)
(* sequence of its code points, so that sorted() is the order of the       *)
(* integers.  A call that raises returns [ok |-> FALSE, error |-> ...], a  *)
(* call that returns v returns [ok |-> TRUE, value |-> v].                 *)
(***************************************************************************)
EXTENDS Integers, Sequences, FiniteSets, TLC

VARIABLES
    enum_cache,   \* keys held by the lru_cache of enumerate_structures
    bundled,      \* what _load_cjkvi_ids() yields: a sequence of <<char, ids>>
    db,           \* the CharacterDatabase a caller constructed
    db_cache,     \* the lru_cache slot of _get_cached_database: <<>> or <<db>>
    built,        \* how many times _get_cached_database ran CharacterDatabase()
    radical_sets, \* the RadicalSet objects that exist, in construction order
    calls,        \* the outer_product call of each thread, and where it is
    cached_id,    \* which construction made the cached database: 0 for none
    last          \* the last call and what it returned or raised

vars ==
    <<enum_cache, bundled, db, db_cache, built, radical_sets, calls, cached_id,
      last>>

----------------------------------------------------------------------------
(* Bounds of the model *)

MaxN == 3            \* enumerate_structures is called with n up to MaxN
MaxRecords == 2      \* a supplied mapping holds at most MaxRecords records
MaxComponents == 3   \* lookup_by_components gets at most MaxComponents components
MaxCount == 3        \* lookup_by_composition gets counts up to MaxCount
MaxBuilds == 2       \* the cached database is built at most MaxBuilds times
MaxIndexRank == 2    \* a tensor of rank up to MaxIndexRank is indexed
MaxRadicals == 3     \* RadicalSet is constructed from at most MaxRadicals strs
MaxSets == 2         \* at most MaxSets RadicalSet objects exist
MaxThreads == 2      \* outer_product is called from MaxThreads threads at once

----------------------------------------------------------------------------
(* Results of calls *)

Ok(v) == [ok |-> TRUE, value |-> v]
Raise(e) == [ok |-> FALSE, error |-> e]

RECURSIVE Flatten(_)
Flatten(blocks) ==
    IF blocks = <<>> THEN <<>> ELSE Head(blocks) \o Flatten(Tail(blocks))

RECURSIVE SumSeq(_)
SumSeq(s) == IF s = <<>> THEN 0 ELSE Head(s) + SumSeq(Tail(s))

Range(s) == {s[i] : i \in DOMAIN s}

----------------------------------------------------------------------------
(* ids.py *)

IDSOperator(symbol, arity, name) ==
    [symbol |-> symbol, arity |-> arity, name |-> name]

BINARY_OPS ==
    << IDSOperator(12272, 2, "LEFT_RIGHT"),
       IDSOperator(12273, 2, "TOP_BOTTOM"),
       IDSOperator(12276, 2, "SURROUND_FULL"),
       IDSOperator(12277, 2, "SURROUND_ABOVE"),
       IDSOperator(12278, 2, "SURROUND_BELOW"),
       IDSOperator(12279, 2, "SURROUND_LEFT"),
       IDSOperator(12280, 2, "SURROUND_UPPER_LEFT"),
       IDSOperator(12281, 2, "SURROUND_UPPER_RIGHT"),
       IDSOperator(12282, 2, "SURROUND_LOWER_LEFT"),
       IDSOperator(12283, 2, "OVERLAID") >>

TERNARY_OPS ==
    << IDSOperator(12274, 3, "LEFT_MID_RIGHT"),
       IDSOperator(12275, 3, "TOP_MID_BOTTOM") >>

\* operator = None of a leaf
NoOperator == IDSOperator(0, 0, "None")

IDSStructure(operator, children) ==
    [operator |-> operator, children |-> children]

is_leaf(s) == s.operator = NoOperator

RECURSIVE component_count(_)
component_count(s) ==
    IF is_leaf(s) THEN 1
    ELSE SumSeq([i \in DOMAIN s.children |-> component_count(s.children[i])])

LEAF == IDSStructure(NoOperator, <<>>)

\* Cross2 that pairs every left with the first right only
Cross2FirstRight(op, L, R) ==
    [i \in 1..(Len(L) * Len(R)) |->
        IDSStructure(op, << L[((i - 1) \div Len(R)) + 1], R[1] >>)]

\* for left in L: for right in R: append(IDSStructure(op, (left, right)))
Cross2(op, L, R) ==
    [i \in 1..(Len(L) * Len(R)) |->
        IDSStructure(op, << L[((i - 1) \div Len(R)) + 1],
                            R[((i - 1) % Len(R)) + 1] >>)]

\* Cross3 with the right child left out of each structure
Cross3DropRight(op, L, M, R) ==
    [i \in 1..(Len(L) * Len(M) * Len(R)) |->
        IDSStructure(op, << L[((i - 1) \div (Len(M) * Len(R))) + 1],
                            M[(((i - 1) \div Len(R)) % Len(M)) + 1] >>)]

\* for left in L: for mid in M: for right in R: append(IDSStructure(op, ...))
Cross3(op, L, M, R) ==
    [i \in 1..(Len(L) * Len(M) * Len(R)) |->
        IDSStructure(op, << L[((i - 1) \div (Len(M) * Len(R))) + 1],
                            M[(((i - 1) \div Len(R)) % Len(M)) + 1],
                            R[((i - 1) % Len(R)) + 1] >>)]

\* BinaryBlocks with the splits (k, n - k) and (n - k, k) merged: k <= n - k only
BinaryBlocksMerged(n, E) ==
    [p \in 1..(Len(BINARY_OPS) * (n \div 2)) |->
        LET op == BINARY_OPS[((p - 1) \div (n \div 2)) + 1]
            k == ((p - 1) % (n \div 2)) + 1
        IN  Cross2(op, E[k], E[n - k])]

\* for op in BINARY_OPS: for k in range(1, n): the block of (op, k);
\* E[k] is enumerate_structures(k) for k < n
BinaryBlocks(n, E) ==
    [p \in 1..(Len(BINARY_OPS) * (n - 1)) |->
        LET op == BINARY_OPS[((p - 1) \div (n - 1)) + 1]
            k == ((p - 1) % (n - 1)) + 1
        IN  Cross2(op, E[k], E[n - k])]

\* for i in range(1, n - 1): for j in range(1, n - i): k = n - i - j,
\* skipped when k < 1
RECURSIVE TernarySplits(_, _)
TernarySplits(n, i) ==
    IF i > n - 2 THEN <<>>
    ELSE SelectSeq([j \in 1..(n - i - 1) |-> <<i, j, n - i - j>>],
                   LAMBDA t : t[3] >= 1)
         \o TernarySplits(n, i + 1)

TernaryBlocks(n, E) ==
    IF n >= 3
    THEN LET splits == TernarySplits(n, 1)
         IN  [p \in 1..(Len(TERNARY_OPS) * Len(splits)) |->
                LET op == TERNARY_OPS[((p - 1) \div Len(splits)) + 1]
                    t == splits[((p - 1) % Len(splits)) + 1]
                IN  Cross3(op, E[t[1]], E[t[2]], E[t[3]])]
    ELSE <<>>

\* the body of enumerate_structures for n >= 2, given the tuples of k < n
StructuresOf(n, E) ==
    Flatten(BinaryBlocks(n, E)) \o Flatten(TernaryBlocks(n, E))

\* <<enumerate_structures(1), ..., enumerate_structures(n)>>: the recursion
\* through the cache computes each smaller tuple once
RECURSIVE StructuresUpTo(_)
StructuresUpTo(n) ==
    IF n = 1 THEN << <<LEAF>> >>
    ELSE LET E == StructuresUpTo(n - 1) IN Append(E, StructuresOf(n, E))

\* the tuples of n = 1..5, computed once: what the cache holds for these n
MAX_ENUM_RANK == 5
StructureTable == StructuresUpTo(MAX_ENUM_RANK)

enumerate_structures(n) ==
    IF n < 1 THEN Raise("ValueError")
    ELSE IF n <= Len(StructureTable) THEN Ok(StructureTable[n])
    ELSE Ok(StructuresUpTo(n)[n])

\* a cache that keeps a key for a call that raised
CacheAfterKeepsFailure(cache, n) == cache \cup {n}

\* the keys the cache holds after a call with n: a call that raises caches
\* nothing, a call that computes caches every k <= n on the way
CacheAfter(cache, n) ==
    IF n < 1 THEN cache
    ELSE IF n \in cache THEN cache
    ELSE cache \cup (1..n)

RECURSIVE build_node(_, _, _)
RECURSIVE build_children(_, _, _, _)
\* _build that writes the operator after the children
build_node_operator_last(s, rad_iter, idx) ==
    IF is_leaf(s)
    THEN [result |-> <<rad_iter[idx]>>, idx |-> idx + 1]
    ELSE LET r == build_children(s.children, rad_iter, idx, <<>>)
         IN  [result |-> r.result \o <<s.operator.symbol>>, idx |-> r.idx]

\* _build: [result, idx] with idx the next unused radical
build_node(s, rad_iter, idx) ==
    IF is_leaf(s)
    THEN [result |-> <<rad_iter[idx]>>, idx |-> idx + 1]
    ELSE build_children(s.children, rad_iter, idx, <<s.operator.symbol>>)
build_children(children, rad_iter, idx, parts) ==
    IF children = <<>> THEN [result |-> parts, idx |-> idx]
    ELSE LET r == build_node(Head(children), rad_iter, idx)
         IN  build_children(Tail(children), rad_iter, r.idx, parts \o r.result)

\* build_ids_string that refuses too few radicals only
build_ids_string_too_few_only(structure, radicals) ==
    IF Len(radicals) < component_count(structure)
    THEN Raise("ValueError")
    ELSE Ok(build_node(structure, radicals, 1).result)

build_ids_string(structure, radicals) ==
    IF Len(radicals) # component_count(structure)
    THEN Raise("ValueError")
    ELSE Ok(build_node(structure, radicals, 1).result)

----------------------------------------------------------------------------
(* Python values: None, a str of one character, a set, a dict *)

PyNone == [type |-> "NoneType"]
PyStr(c) == [type |-> "str", value |-> c]
PySet(S) == [type |-> "set", value |-> S]

\* a dict is a function from its keys; d[k] = v
EmptyDict == [k \in {} |-> 0]
DictSet(d, k, v) == [x \in (DOMAIN d) \cup {k} |-> IF x = k THEN v ELSE d[x]]

\* sorted() of a sequence of code points
RECURSIVE InsertSorted(_, _)
InsertSorted(x, s) ==
    IF s = <<>> THEN <<x>>
    ELSE IF x < Head(s) THEN <<x>> \o s
    ELSE <<Head(s)>> \o InsertSorted(x, Tail(s))

RECURSIVE sorted(_)
sorted(s) == IF s = <<>> THEN <<>> ELSE InsertSorted(Head(s), sorted(Tail(s)))

\* tuple(sorted(d.items())): the (key, value) pairs in the order of the keys
RECURSIVE SortedKeys(_)
SortedKeys(S) ==
    IF S = {} THEN <<>>
    ELSE LET m == CHOOSE x \in S : \A y \in S : x <= y
         IN  <<m>> \o SortedKeys(S \ {m})

sorted_items(d) ==
    LET ks == SortedKeys(DOMAIN d) IN [i \in DOMAIN ks |-> <<ks[i], d[ks[i]]>>]

----------------------------------------------------------------------------
(* character_db.py *)

Jin == 37329
Mu == 26408
Shui == 27700
Huo == 28779
Tu == 22303

IDS_OPERATORS == 12272..12283

WU_XING_RADICALS == {Jin, Mu, Shui, Huo, Tu}

MAX_DEPTH == 10

\* a mapping character -> IDS is the sequence of its items, in insertion
\* order, no character twice
Keys(items) == {items[i][1] : i \in DOMAIN items}

\* ids_data.get(char, "")
IdsOf(items, char) ==
    IF char \in Keys(items)
    THEN items[CHOOSE i \in DOMAIN items : items[i][1] = char][2]
    ELSE <<>>

NoCounts == [none |-> TRUE, dict |-> EmptyDict]
Counts(d) == [none |-> FALSE, dict |-> d]

\* AddCounts with "=" for "+=": a later component replaces the count
AddCountsOverwrite(result, sub_counts) ==
    [r \in (DOMAIN result) \cup (DOMAIN sub_counts) |->
        IF r \in DOMAIN sub_counts THEN sub_counts[r] ELSE result[r]]

\* result[radical] += count for every item of sub_counts
AddCounts(result, sub_counts) ==
    [r \in (DOMAIN result) \cup (DOMAIN sub_counts) |->
        (IF r \in DOMAIN result THEN result[r] ELSE 0)
        + (IF r \in DOMAIN sub_counts THEN sub_counts[r] ELSE 0)]

RECURSIVE count_wu_xing_radicals(_, _, _)
RECURSIVE count_loop(_, _, _, _, _)
\* _count_wu_xing_radicals that counts the character it overflows at as
\* one component, and goes on
count_wu_xing_radicals_overflow_leaf(char, ids_data, depth) ==
    IF depth > MAX_DEPTH THEN Counts(DictSet(EmptyDict, char, 1))
    ELSE IF char \in WU_XING_RADICALS THEN Counts(DictSet(EmptyDict, char, 1))
    ELSE LET ids == IdsOf(ids_data, char)
         IN  IF ids = <<>> \/ ids[1] \notin IDS_OPERATORS THEN NoCounts
             ELSE count_loop(ids, 1, EmptyDict, ids_data, depth)

\* _count_wu_xing_radicals that tests for a stop radical before the depth
count_wu_xing_radicals_stop_first(char, ids_data, depth) ==
    IF char \in WU_XING_RADICALS THEN Counts(DictSet(EmptyDict, char, 1))
    ELSE IF depth > MAX_DEPTH THEN NoCounts
    ELSE LET ids == IdsOf(ids_data, char)
         IN  IF ids = <<>> \/ ids[1] \notin IDS_OPERATORS THEN NoCounts
             ELSE count_loop(ids, 1, EmptyDict, ids_data, depth)

count_wu_xing_radicals(char, ids_data, depth) ==
    IF depth > MAX_DEPTH THEN NoCounts
    ELSE IF char \in WU_XING_RADICALS THEN Counts(DictSet(EmptyDict, char, 1))
    ELSE LET ids == IdsOf(ids_data, char)
         IN  IF ids = <<>> \/ ids[1] \notin IDS_OPERATORS THEN NoCounts
             ELSE count_loop(ids, 1, EmptyDict, ids_data, depth)
\* for c in ids, from position i on, result so far
count_loop(ids, i, result, ids_data, depth) ==
    IF i > Len(ids)
    THEN IF DOMAIN result # {} THEN Counts(result) ELSE NoCounts
    ELSE IF ids[i] \in IDS_OPERATORS
    THEN count_loop(ids, i + 1, result, ids_data, depth)
    ELSE LET sub_counts == count_wu_xing_radicals(ids[i], ids_data, depth + 1)
         IN  IF sub_counts.none THEN NoCounts
             ELSE count_loop(ids, i + 1, AddCounts(result, sub_counts.dict),
                             ids_data, depth)

\* the greatest depth argument of the calls _count_wu_xing_radicals(char,
\* ids_data, depth) makes, itself included
RECURSIVE expansion_depth(_, _, _)
RECURSIVE depth_loop(_, _, _, _, _)
expansion_depth(char, ids_data, depth) ==
    IF depth > MAX_DEPTH THEN depth
    ELSE IF char \in WU_XING_RADICALS THEN depth
    ELSE LET ids == IdsOf(ids_data, char)
         IN  IF ids = <<>> \/ ids[1] \notin IDS_OPERATORS THEN depth
             ELSE depth_loop(ids, 1, depth, ids_data, depth)
\* the loop over ids from position i on; it ends at the first component
\* whose counts are None
depth_loop(ids, i, deepest, ids_data, depth) ==
    IF i > Len(ids) THEN deepest
    ELSE IF ids[i] \in IDS_OPERATORS
    THEN depth_loop(ids, i + 1, deepest, ids_data, depth)
    ELSE LET sub == expansion_depth(ids[i], ids_data, depth + 1)
             m == IF sub > deepest THEN sub ELSE deepest
         IN  IF count_wu_xing_radicals(ids[i], ids_data, depth + 1).none
             THEN m
             ELSE depth_loop(ids, i + 1, m, ids_data, depth)

\* the greatest recursion depth of _build_wu_xing_index over all records
index_depth(char_to_ids) ==
    LET depths == {expansion_depth(char_to_ids[i][1], char_to_ids, 0) :
                      i \in DOMAIN char_to_ids}
    IN  IF depths = {} THEN 0
        ELSE CHOOSE m \in depths : \A x \in depths : x <= m

extract_components(ids_string) ==
    SelectSeq(ids_string, LAMBDA c : c \notin IDS_OPERATORS)

\* {ids: char for char, ids in items} on top of d: each ids maps to the
\* char of the last item that has it
BuildIdsToChar(items, d) ==
    LET last_with(ids) ==
            CHOOSE i \in DOMAIN items :
                /\ items[i][2] = ids
                /\ \A j \in DOMAIN items : items[j][2] = ids => j <= i
    IN  [ids \in (DOMAIN d) \cup {items[i][2] : i \in DOMAIN items} |->
            IF \E i \in DOMAIN items : items[i][2] = ids
            THEN items[last_with(ids)][1] ELSE d[ids]]

\* for char, ids in items: index[sorted components].add((ids, char)); each
\* key ends with the entries of all the items that have it
BuildComponentIndex(items, index) ==
    LET key_of == [i \in DOMAIN items |->
                      sorted(extract_components(items[i][2]))]
    IN  [key \in (DOMAIN index) \cup {key_of[i] : i \in DOMAIN items} |->
            (IF key \in DOMAIN index THEN index[key] ELSE {})
            \cup {<<items[i][2], items[i][1]>> :
                     i \in {j \in DOMAIN items : key_of[j] = key}}]

\* _build_wu_xing_index, from item i on: each char whose counts are not
\* None is added under the sorted items of its counts
build_wu_xing_index(char_to_ids, i, index) ==
    LET counts == [j \in i..Len(char_to_ids) |->
                      count_wu_xing_radicals(char_to_ids[j][1], char_to_ids, 0)]
        kept == {j \in DOMAIN counts : ~counts[j].none}
        key_of == [j \in kept |-> sorted_items(counts[j].dict)]
    IN  [key \in (DOMAIN index) \cup {key_of[j] : j \in kept} |->
            (IF key \in DOMAIN index THEN index[key] ELSE {})
            \cup {char_to_ids[j][1] : j \in {k \in kept : key_of[k] = key}}]

\* the argument ids_data of CharacterDatabase(): None, or a mapping
NoMapping == [given |-> FALSE, items |-> <<>>]
Mapping(items) == [given |-> TRUE, items |-> items]

\* CharacterDatabase.__init__; loaded is what _load_cjkvi_ids() yields
CharacterDatabase(ids_data, loaded) ==
    LET char_to_ids ==
            IF ids_data.given /\ ids_data.items # <<>>
            THEN ids_data.items ELSE loaded
    IN  [ char_to_ids |-> char_to_ids,
          ids_to_char |-> BuildIdsToChar(char_to_ids, EmptyDict),
          component_index |-> BuildComponentIndex(char_to_ids, EmptyDict),
          wu_xing_index |-> build_wu_xing_index(char_to_ids, 1, EmptyDict) ]

\* len(db)
db_len(d) == Len(d.char_to_ids)

lookup_by_ids(d, ids_string) ==
    IF ids_string \in DOMAIN d.ids_to_char
    THEN PyStr(d.ids_to_char[ids_string]) ELSE PyNone

\* lookup_by_components with the key left unsorted
lookup_by_components_unsorted(d, components) ==
    LET entries == IF components \in DOMAIN d.component_index
                   THEN d.component_index[components] ELSE {}
    IN  {e[2] : e \in entries}

lookup_by_components(d, components) ==
    LET sorted_key == sorted(components)
        entries == IF sorted_key \in DOMAIN d.component_index
                   THEN d.component_index[sorted_key] ELSE {}
    IN  {e[2] : e \in entries}

lookup_by_composition(d, radical_counts) ==
    LET key == sorted_items(radical_counts)
    IN  IF key \in DOMAIN d.wu_xing_index THEN d.wu_xing_index[key] ELSE {}

get_ids(d, char) ==
    IF char \in Keys(d.char_to_ids)
    THEN PyStr(IdsOf(d.char_to_ids, char)) ELSE PyNone

\* dict(key) of a key of the Wu Xing index
dict_of_items(key) ==
    [r \in {key[i][1] : i \in DOMAIN key} |->
        key[CHOOSE i \in DOMAIN key : key[i][1] = r][2]]

\* iter_wu_xing_chars: the (char, counts) pairs it yields
iter_wu_xing_chars(d) ==
    UNION { {<<char, dict_of_items(key)>> : char \in d.wu_xing_index[key]} :
            key \in DOMAIN d.wu_xing_index }

\* index[key] on a defaultdict(set): a missing key is inserted with set()
after_getitem(index, key) ==
    IF key \in DOMAIN index THEN index ELSE DictSet(index, key, {})

\* index.get(key, set()): the index after the call; get() does not run
\* __missing__, so the index is as it was
after_get(index, key) == index

\* the database after each lookup
after_lookup_by_components(d, components) ==
    [d EXCEPT !.component_index = after_get(@, sorted(components))]

after_lookup_by_composition(d, radical_counts) ==
    [d EXCEPT !.wu_xing_index = after_get(@, sorted_items(radical_counts))]

----------------------------------------------------------------------------
(* tensor.py *)

MIN_RANK == 2
MAX_RANK == 8

\* the guard of the five-rank version: "rank < 2 or rank > 5"
RankAcceptedUpTo5(rank) == ~(rank < MIN_RANK \/ rank > MAX_ENUM_RANK)

\* the negation of the guard "rank < 2 or rank > 8"
RankAccepted(rank) == ~(rank < MIN_RANK \/ rank > MAX_RANK)

\* the message of the five-rank version
InvalidRankErrorStale(rank) ==
    [ ok |-> FALSE, error |-> "InvalidRankError",
      message |-> [ text |-> "Rank must be between {lo} and {hi}, got {rank}",
                    lo |-> MIN_RANK, hi |-> MAX_ENUM_RANK, rank |-> rank ] ]

\* InvalidRankError(f"Rank must be between 2 and 8, got {rank}")
InvalidRankError(rank) ==
    [ ok |-> FALSE, error |-> "InvalidRankError",
      message |-> [ text |-> "Rank must be between {lo} and {hi}, got {rank}",
                    lo |-> MIN_RANK, hi |-> MAX_RANK, rank |-> rank ] ]

\* _get_cached_database(): the cached instance, built on a miss
get_cached_database(slot, loaded) ==
    IF slot = <<>> THEN CharacterDatabase(NoMapping, loaded) ELSE slot[1]

\* a _get_cached_database() that runs CharacterDatabase() on every call
constructions_uncached(slot) == 1

\* how many times a _get_cached_database() call runs CharacterDatabase()
constructions(slot) == IF slot = <<>> THEN 1 ELSE 0

\* product(range(n), repeat=rank)
IndexTuples(n, rank) == [1..rank -> 0..(n - 1)]

\* [radical_set[i] for i in indices]
Selected(radical_set, indices) ==
    [p \in DOMAIN indices |-> radical_set[indices[p] + 1]]

\* Counter that counts every selected radical once: dict.fromkeys(radicals, 1)
CounterOnes(radicals) == [c \in Range(radicals) |-> 1]

\* dict(Counter(radicals))
Counter(radicals) ==
    [c \in Range(radicals) |->
        Cardinality({p \in DOMAIN radicals : radicals[p] = c})]

is_wu_xing_set(radical_set) ==
    \A i \in DOMAIN radical_set : radical_set[i] \in WU_XING_RADICALS

\* a loop that enumerates the structures whatever the rank
enumerates_any_rank(radical_set, rank) == ~is_wu_xing_set(radical_set)

\* "if not is_wu_xing_set and rank <= 5": structures is not None, so the
\* loop takes the branch of enumerate_structures and lookup_by_ids
enumerates(radical_set, rank) ==
    ~is_wu_xing_set(radical_set) /\ rank <= MAX_ENUM_RANK

\* a cell that looks at the first radical only
CompositionCellFirstOnly(d, radicals) ==
    lookup_by_composition(d, Counter(<<radicals[1]>>))

\* the cell of a Wu Xing set
CompositionCell(d, radicals) == lookup_by_composition(d, Counter(radicals))

\* chars.update(db.lookup_by_ids(ids_string)) raises TypeError when the
\* lookup returns None
IdsCellRaises(d, structures, radicals) ==
    \E i \in 1..Len(structures) :
        lookup_by_ids(d, build_ids_string(structures[i], radicals).value)
            = PyNone

\* the cell of another set with rank <= 5, when no lookup returned None:
\* update() adds the characters of each str returned
IdsCell(d, structures, radicals) ==
    { lookup_by_ids(d, build_ids_string(structures[i], radicals).value).value :
        i \in 1..Len(structures) }
    \cup lookup_by_components(d, radicals)

\* the cell of another set with rank > 5
ComponentsCell(d, radicals) == lookup_by_components(d, radicals)

TensorResult(radical_set, rank, data) ==
    [ radical_set |-> radical_set, rank |-> rank, data |-> data,
      size |-> Len(radical_set) ]

\* tensor.shape
shape(t) == [p \in 1..t.rank |-> t.size]

\* IndexError(f"Index {idx} out of bounds for dimension {i} with size ...")
IndexError(idx, i, size) ==
    [ ok |-> FALSE, error |-> "IndexError",
      message |-> [idx |-> idx, dimension |-> i, size |-> size] ]

\* __getitem__ with the bounds test of a list: only idx >= size is refused
getitem_negative_allowed(t, index) ==
    LET bad == {i \in DOMAIN index : index[i] >= t.size}
    IN  IF bad # {}
        THEN LET i == CHOOSE x \in bad : \A y \in bad : x <= y
             IN  IndexError(index[i], i - 1, t.size)
        ELSE Ok(IF index \in DOMAIN t.data THEN t.data[index] ELSE {})

\* __getitem__ that refuses an index whose length is not the rank
getitem_of_rank_only(t, index) ==
    IF Len(index) # t.rank
    THEN IndexError(Len(index), 0, t.rank)
    ELSE Ok(IF index \in DOMAIN t.data THEN t.data[index] ELSE {})

\* TensorResult.__getitem__; index is the tuple, an int being wrapped in one.
\* The first coordinate out of bounds raises.
getitem(t, index) ==
    LET bad == {i \in DOMAIN index : index[i] < 0 \/ index[i] >= t.size}
    IN  IF bad # {}
        THEN LET i == CHOOSE x \in bad : \A y \in bad : x <= y
             IN  IndexError(index[i], i - 1, t.size)
        ELSE Ok(IF index \in DOMAIN t.data THEN t.data[index] ELSE {})

\* outer_product after the rank check, on the database d
outer_product_on(d, radical_set, rank) ==
    LET n == Len(radical_set)
        cells == IndexTuples(n, rank)
    IN  IF is_wu_xing_set(radical_set)
        THEN Ok(TensorResult(radical_set, rank,
                [ix \in cells |->
                    CompositionCell(d, Selected(radical_set, ix))]))
        ELSE IF rank <= MAX_ENUM_RANK
        THEN LET structures == enumerate_structures(rank).value
             IN  IF \E ix \in cells :
                        IdsCellRaises(d, structures, Selected(radical_set, ix))
                 THEN Raise("TypeError")
                 ELSE Ok(TensorResult(radical_set, rank,
                        [ix \in cells |->
                            IdsCell(d, structures, Selected(radical_set, ix))]))
        ELSE Ok(TensorResult(radical_set, rank,
                [ix \in cells |->
                    ComponentsCell(d, Selected(radical_set, ix))]))

\* product(range(n), repeat=rank), in the order the loop visits the tuples
RECURSIVE IndexSeq(_, _)
IndexSeq(n, rank) ==
    IF rank = 0 THEN << <<>> >>
    ELSE LET rest == IndexSeq(n, rank - 1)
             RECURSIVE from(_)
             from(first) ==
                 IF first >= n THEN <<>>
                 ELSE [i \in DOMAIN rest |-> <<first>> \o rest[i]]
                      \o from(first + 1)
         IN  from(0)

\* index.get(key, ...) for every key of keys, one after the other
RECURSIVE after_gets(_, _)
after_gets(index, keys) ==
    IF keys = {} THEN index
    ELSE LET key == CHOOSE k \in keys : TRUE
         IN  after_gets(after_get(index, key), keys \ {key})

\* the cached database after the loop of outer_product: every cell visited
\* does its lookups, and the loop ends at the first cell whose update()
\* raises
after_outer_product(d, radical_set, rank) ==
    LET cells == IndexSeq(Len(radical_set), rank)
        radicals(i) == Selected(radical_set, cells[i])
        raising == IF is_wu_xing_set(radical_set) \/ rank > MAX_ENUM_RANK
                   THEN {}
                   ELSE {i \in DOMAIN cells :
                            IdsCellRaises(d, enumerate_structures(rank).value,
                                          radicals(i))}
        visited == {i \in DOMAIN cells : \A j \in raising : i < j}
    IN  IF is_wu_xing_set(radical_set)
        THEN [d EXCEPT !.wu_xing_index = after_gets(@,
                 {sorted_items(Counter(radicals(i))) : i \in visited})]
        ELSE [d EXCEPT !.component_index = after_gets(@,
                 {sorted(radicals(i)) : i \in visited})]

\* what a caller does to a set it was handed: s.add(x) or s.discard(x)
mutated(S, method, x) == IF method = "add" THEN S \cup {x} ELSE S \ {x}

\* the object lookup_by_composition returns: <<key>> for the set the index
\* holds under the key, which get() returns itself, <<>> for the new set()
\* of a miss
returned_by_composition(d, radical_counts) ==
    LET key == sorted_items(radical_counts)
    IN  IF key \in DOMAIN d.wu_xing_index THEN <<key>> ELSE <<>>

\* the object outer_product stores in the cell of indices, and __getitem__
\* returns: what lookup_by_composition returned for a Wu Xing set, a set
\* made for the cell otherwise
cell_object(d, radical_set, indices) ==
    IF is_wu_xing_set(radical_set)
    THEN returned_by_composition(d, Counter(Selected(radical_set, indices)))
    ELSE <<>>

\* the database after the object obj was changed by who holds it
after_mutation(d, obj, method, x) ==
    IF obj = <<>> THEN d
    ELSE [d EXCEPT !.wu_xing_index[obj[1]] = mutated(@, method, x)]

\* the cells of a tensor after the object of the cell of indices was
\* changed: the cells that hold the same object change with it
cells_after_mutation(d, t, indices, method, x) ==
    LET obj == cell_object(d, t.radical_set, indices)
    IN  [jx \in DOMAIN t.data |->
            IF jx = indices
               \/ (obj # <<>> /\ cell_object(d, t.radical_set, jx) = obj)
            THEN mutated(t.data[jx], method, x)
            ELSE t.data[jx]]

\* the slot of a call that obtains the database before it tests the rank
slot_after_database_first(slot, loaded, radical_set, rank) ==
    IF ~RankAccepted(rank)
    THEN <<get_cached_database(slot, loaded)>>
    ELSE <<after_outer_product(get_cached_database(slot, loaded),
                               radical_set, rank)>>

\* the lru_cache slot of _get_cached_database after the call
\* outer_product(radical_set, rank): a refused rank raises before
\* _get_cached_database() is called
slot_after_outer_product(slot, loaded, radical_set, rank) ==
    IF ~RankAccepted(rank)
    THEN slot
    ELSE <<after_outer_product(get_cached_database(slot, loaded),
                               radical_set, rank)>>

----------------------------------------------------------------------------
(* validation.py and core.py *)

\* a call that raises error(message), the message naming char
RaiseAbout(e, char, m) ==
    [ok |-> FALSE, error |-> e, char |-> char, message |-> m]

\* a call that raises error(message)
RaiseMsg(e, m) == [ok |-> FALSE, error |-> e, message |-> m]

\* the inclusive code point ranges of is_cjk_character
cjk_ranges ==
    << <<19968, 40959>>,      \* 0x4E00..0x9FFF   CJK Unified Ideographs
       <<13312, 19903>>,      \* 0x3400..0x4DBF   Extension A
       <<131072, 173791>>,    \* 0x20000..0x2A6DF Extension B
       <<173824, 177983>>,    \* 0x2A700..0x2B73F Extension C
       <<177984, 178207>>,    \* 0x2B740..0x2B81F Extension D
       <<178208, 183983>>,    \* 0x2B820..0x2CEAF Extension E
       <<183984, 191471>>,    \* 0x2CEB0..0x2EBEF Extension F
       <<191472, 192093>>,    \* 0x2EBF0..0x2EE5D Extension I
       <<196608, 201551>>,    \* 0x30000..0x3134F Extension G
       <<201552, 205743>>,    \* 0x31350..0x323AF Extension H
       <<205744, 210043>> >>  \* 0x323B0..0x3347B Extension J

\* char is a str: a sequence of code points
is_cjk_character(char) ==
    IF Len(char) # 1 THEN FALSE
    ELSE LET code_point == char[1]
         IN  \E k \in DOMAIN cjk_ranges :
                 cjk_ranges[k][1] <= code_point /\ code_point <= cjk_ranges[k][2]

Che == 36710         \* 车
Shuo == 35828        \* 说
LongSimplified == 40857   \* 龙
LongTraditional == 40845  \* 龍

\* hanzidentifier.identify on one character: the characters the tests give
\* as simplified-only are SIMPLIFIED, 龍 is TRADITIONAL, the rest BOTH
identify(char) ==
    IF char[1] \in {Che, Shuo, LongSimplified} THEN "SIMPLIFIED"
    ELSE IF char[1] = LongTraditional THEN "TRADITIONAL"
    ELSE "BOTH"

is_simplified_only(char) ==
    IF Len(char) # 1 THEN FALSE
    ELSE identify(char) = "SIMPLIFIED"

validate_radical(char) ==
    IF ~is_cjk_character(char)
    THEN RaiseAbout("InvalidRadicalError", char, "is not a valid CJK character")
    ELSE IF is_simplified_only(char)
    THEN RaiseAbout("SimplifiedChineseError", char, "is simplified Chinese only")
    ELSE Ok(PyNone)

\* for radical in radicals: validate_radical(radical), from position i on
RECURSIVE validate_each(_, _)
validate_each(radicals, i) ==
    IF i > Len(radicals) THEN Ok(PyNone)
    ELSE LET v == validate_radical(radicals[i])
         IN  IF ~v.ok THEN v ELSE validate_each(radicals, i + 1)

\* a constructor that does not look for duplicates
RadicalSetNoDuplicateTest(name, radicals) ==
    IF radicals = <<>>
    THEN RaiseMsg("ValueError", "RadicalSet requires at least one radical")
    ELSE LET v == validate_each(radicals, 1)
         IN  IF ~v.ok THEN v
             ELSE Ok([name |-> name, radicals |-> radicals])

\* RadicalSet(name, radicals): the object, or what __init__ raises
RadicalSet(name, radicals) ==
    IF radicals = <<>>
    THEN RaiseMsg("ValueError", "RadicalSet requires at least one radical")
    ELSE IF Len(radicals) # Cardinality(Range(radicals))
    THEN RaiseMsg("ValueError", "RadicalSet cannot contain duplicate radicals")
    ELSE LET v == validate_each(radicals, 1)
         IN  IF ~v.ok THEN v
             ELSE Ok([name |-> name, radicals |-> radicals])

----------------------------------------------------------------------------
(* Inputs *)

Ri == 26085          \* 日
Yue == 26376         \* 月
Lin == 26519         \* 林
LinCompat == 63988   \* U+F9F4, the compatibility form of 林
Sen == 26862         \* 森
Ming == 26126        \* 明
Mo == 26411          \* a character recorded as a bare 木, with no operator
Loop == 26412        \* a character whose record contains itself
JinMu == 37430       \* a character made of 金 and 木
OpOnly == 26413      \* a character whose record is an operator alone
Chang == 26124       \* 昌
LatinX == 88         \* "X" of the tests' unknown string
Space == 32

CycleA == 26414       \* two characters, each recorded with the other inside
CycleB == 26415

OpLR == 12272        \* U+2FF0
OpTB == 12273        \* U+2FF1
OpLMR == 12274       \* U+2FF2

\* records a dataset may hold
RecordPool ==
    { <<Lin, <<OpLR, Mu, Mu>>>>,
      <<LinCompat, <<OpLR, Mu, Mu>>>>,
      <<Sen, <<OpTB, Mu, Lin>>>>,
      <<JinMu, <<OpLR, Jin, Mu>>>>,
      <<Mu, <<Mu>>>>,
      <<Mo, <<Mu>>>>,
      <<Loop, <<OpLR, Loop, Mu>>>>,
      <<OpOnly, <<OpLR>>>>,
      <<Ming, <<OpLR, Ri, Yue>>>> }

NoRepeat(items) ==
    \A i, j \in DOMAIN items : items[i][1] = items[j][1] => i = j

\* every mapping of at most MaxRecords records of the pool, in every order
Datasets ==
    UNION { {m \in [1..k -> RecordPool] : NoRepeat(m)} : k \in 0..MaxRecords }

\* one character for each binary operator applied to 日 日
AllBinaryOfRi ==
    [i \in 1..Len(BINARY_OPS) |-> <<Chang + i, <<BINARY_OPS[i].symbol, Ri, Ri>>>>]

\* one character of six 日, and one of seven
SixSuns ==
    << <<Chang, <<OpLR, OpLMR, Ri, Ri, Ri, OpLMR, Ri, Ri, Ri>>>>,
       <<Ming, <<OpTB, Ri, OpLR, OpLMR, Ri, Ri, Ri, OpLMR, Ri, Ri, Ri>>>> >>

\* c1 = op(木, 木), c(k+1) = op(木, ck), for k up to MAX_DEPTH + 1
DeepChain ==
    [k \in 1..(MAX_DEPTH + 1) |->
        <<Chang + k, <<OpLR, Mu, IF k = 1 THEN Mu ELSE Chang + k - 1>>>>]

\* one character for each binary operator applied to each pair of 日 and 月
AllBinaryOfRiYue ==
    [i \in 1..(4 * Len(BINARY_OPS)) |->
        <<Chang + i,
          << BINARY_OPS[((i - 1) \div 4) + 1].symbol,
             IF ((i - 1) % 4) \div 2 = 0 THEN Ri ELSE Yue,
             IF (i - 1) % 2 = 0 THEN Ri ELSE Yue >> >>]

\* what the bundled file may hold
BundledChoices == Datasets \cup {AllBinaryOfRi, AllBinaryOfRiYue, SixSuns}

\* what a caller may hand to CharacterDatabase()
\* a cycle of two characters, 林, and a stop radical recorded as two 林
CyclicMapping ==
    << <<CycleA, <<OpLR, Mu, CycleB>>>>,
       <<CycleB, <<OpLR, Mu, CycleA>>>>,
       <<Lin, <<OpLR, Mu, Mu>>>>,
       <<Mu, <<OpTB, Lin, Lin>>>> >>

ConstructorArgs ==
    {NoMapping, Mapping(<<>>), Mapping(DeepChain), Mapping(CyclicMapping),
     Mapping(<< <<Lin, <<OpLR, Mu, Mu>>>>, <<LinCompat, <<OpLR, Mu, Mu>>>> >>)}

SeqsUpTo(S, n) == UNION {[1..k -> S] : k \in 0..n}

IdsQueries ==
    {r[2] : r \in RecordPool} \cup {<<OpLR, LatinX, Space, LatinX>>}

ComponentQueries == SeqsUpTo({Jin, Mu, Lin}, MaxComponents)

CompositionQueries ==
    UNION {[S -> 0..MaxCount] : S \in SUBSET {Jin, Mu}}
    \cup {DictSet(EmptyDict, Mu, MAX_DEPTH + 1),
          DictSet(EmptyDict, Mu, MAX_DEPTH + 2)}

CharQueries == {r[1] : r \in RecordPool} \cup {Ri}

RadicalSets ==
    { <<Jin>>, <<Mu>>, <<Jin, Mu>>, <<Mu, Jin>>,
      <<Ri>>, <<Ri, Yue>>, <<Mu, Ri>> }

Ranks == (-1)..(MAX_RANK + 2)

BuildRadicals == SeqsUpTo({Jin, Mu}, MaxN + 1)

\* what the bundled file holds when tensors are indexed
TensorDatasets ==
    { <<>>, AllBinaryOfRi,
      << <<Lin, <<OpLR, Mu, Mu>>>>, <<JinMu, <<OpLR, Jin, Mu>>>> >> }

\* the index tuples handed to a tensor of the given rank and size: one
\* coordinate fewer to one more than rank, each from -1 to size
Indices(rank, size) ==
    UNION {[1..k -> (-1)..size] : k \in (rank - 1)..(rank + 1)}

LatinA == 97         \* "a"
Dan == 21934         \* 單

\* the names given to RadicalSet: "單" and "bad"
Names == { <<Dan>>, <<98, LatinA, 100>> }

\* the strs offered as radicals: two valid characters, a Latin letter, a
\* simplified-only character, the empty str and a str of two characters
RadicalStrs == { <<Jin>>, <<Mu>>, <<LatinA>>, <<Che>>, <<>>, <<Jin, Mu>> }

RadicalLists == SeqsUpTo(RadicalStrs, MaxRadicals)

ExtJLast == 210047   \* U+3347F, the last code point of Extension J
ExtJAfter == 210048  \* U+33480

\* the strs handed to the validation functions: the code points at and
\* beside both ends of every range, the end the tests give for Extension
\* J, the characters of the tests, the empty str and a str of two
ValidationStrs ==
    { <<c>> : c \in UNION { {cjk_ranges[k][1] - 1, cjk_ranges[k][1],
                             cjk_ranges[k][2], cjk_ranges[k][2] + 1} :
                            k \in DOMAIN cjk_ranges } }
    \cup { <<c>> : c \in (ExtJLast - 5)..ExtJAfter }
    \cup { <<Jin>>, <<LatinA>>, <<Che>>, <<Shuo>>, <<LongSimplified>>,
           <<LongTraditional>>, <<>>, <<Jin, Mu>> }

\* what a caller adds to or removes from a set it was handed
MutationChars == {LatinX, Lin}

\* ranks of the calls made around a reset: one refused, one that enumerates
\* structures on an open set, one that does not
CacheRanks == {MIN_RANK - 1, MIN_RANK, MAX_ENUM_RANK + 1}

----------------------------------------------------------------------------
(* State *)

EmptyDatabase == CharacterDatabase(NoMapping, <<>>)

InitCall == [op |-> "none"]

\* no thread has called outer_product
NoCalls ==
    [t \in 1..MaxThreads |->
        [pc |-> "idle", radical_set |-> <<>>, rank |-> 0, instance |-> 0,
         ret |-> InitCall]]

\* the caller is between two calls
Idle == last.op = "none"

\* the caller has taken the result of its last call
Return ==
    /\ ~Idle
    /\ last' = InitCall
    /\ UNCHANGED <<enum_cache, bundled, db, db_cache, built, radical_sets, calls, cached_id>>

\* ids.py: the enumerator, its cache and the builder
InitIds ==
    /\ enum_cache = {}
    /\ bundled = <<>>
    /\ db = EmptyDatabase
    /\ db_cache = <<>>
    /\ built = 0
    /\ radical_sets = <<>>
    /\ calls = NoCalls
    /\ cached_id = 0
    /\ last = InitCall

EnumerateStructures(n) ==
    /\ Idle
    /\ last' = [ op |-> "enumerate_structures", n |-> n,
                 hit |-> n \in enum_cache,
                 ret |-> enumerate_structures(n) ]
    /\ enum_cache' = CacheAfter(enum_cache, n)
    /\ UNCHANGED <<bundled, db, db_cache, built, radical_sets, calls, cached_id>>

\* build_ids_string on the i-th structure of a tuple an earlier call returned
BuildIdsString(n, i, radicals) ==
    /\ Idle
    /\ n \in enum_cache
    /\ LET structure == enumerate_structures(n).value[i]
       IN  last' = [ op |-> "build_ids_string", n |-> n, i |-> i,
                     structure |-> structure, radicals |-> radicals,
                     ret |-> build_ids_string(structure, radicals) ]
    /\ UNCHANGED <<enum_cache, bundled, db, db_cache, built, radical_sets, calls, cached_id>>

NextIds ==
    \/ Idle /\ \E n \in (-1)..MaxN : EnumerateStructures(n)
    \/ Idle /\ \E n \in 1..MaxN :
         \E i \in 1..Len(StructureTable[n]) :
           \E radicals \in BuildRadicals : BuildIdsString(n, i, radicals)
    \/ Return

SpecIds == InitIds /\ [][NextIds]_vars

\* character_db.py: a database and its lookups
InitDb ==
    /\ enum_cache = {}
    /\ bundled \in BundledChoices
    /\ db = CharacterDatabase(NoMapping, bundled)
    /\ db_cache = <<>>
    /\ built = 0
    /\ radical_sets = <<>>
    /\ calls = NoCalls
    /\ cached_id = 0
    /\ last = InitCall

NewCharacterDatabase(ids_data) ==
    /\ Idle
    /\ db' = CharacterDatabase(ids_data, bundled)
    /\ last' = [ op |-> "CharacterDatabase", ids_data |-> ids_data,
                 depth |-> index_depth(db'.char_to_ids) ]
    /\ UNCHANGED <<enum_cache, bundled, db_cache, built, radical_sets, calls, cached_id>>

LookupByIds(ids_string) ==
    /\ Idle
    /\ last' = [ op |-> "lookup_by_ids", ids_string |-> ids_string,
                 ret |-> lookup_by_ids(db, ids_string) ]
    /\ UNCHANGED <<enum_cache, bundled, db, db_cache, built, radical_sets, calls, cached_id>>

LookupByComponents(components) ==
    /\ Idle
    /\ last' = [ op |-> "lookup_by_components", components |-> components,
                 ret |-> PySet(lookup_by_components(db, components)) ]
    /\ db' = after_lookup_by_components(db, components)
    /\ UNCHANGED <<enum_cache, bundled, db_cache, built, radical_sets, calls, cached_id>>

LookupByComposition(radical_counts) ==
    /\ Idle
    /\ last' = [ op |-> "lookup_by_composition",
                 radical_counts |-> radical_counts,
                 ret |-> PySet(lookup_by_composition(db, radical_counts)) ]
    /\ db' = after_lookup_by_composition(db, radical_counts)
    /\ UNCHANGED <<enum_cache, bundled, db_cache, built, radical_sets, calls, cached_id>>

GetIds(char) ==
    /\ Idle
    /\ last' = [op |-> "get_ids", char |-> char, ret |-> get_ids(db, char)]
    /\ UNCHANGED <<enum_cache, bundled, db, db_cache, built, radical_sets, calls, cached_id>>

IterWuXingChars ==
    /\ Idle
    /\ last' = [op |-> "iter_wu_xing_chars", ret |-> iter_wu_xing_chars(db)]
    /\ UNCHANGED <<enum_cache, bundled, db, db_cache, built, radical_sets, calls, cached_id>>

NextDb ==
    \/ Idle /\ \E ids_data \in ConstructorArgs : NewCharacterDatabase(ids_data)
    \/ Idle /\ \E ids_string \in IdsQueries : LookupByIds(ids_string)
    \/ Idle /\ \E components \in ComponentQueries :
         LookupByComponents(components)
    \/ Idle /\ \E radical_counts \in CompositionQueries :
         LookupByComposition(radical_counts)
    \/ Idle /\ \E char \in CharQueries : GetIds(char)
    \/ IterWuXingChars
    \/ Return

SpecDb == InitDb /\ [][NextDb]_vars

\* tensor.py: outer_product on the process-wide database
Init ==
    /\ enum_cache = {}
    /\ bundled \in BundledChoices
    /\ db = EmptyDatabase
    /\ db_cache = <<>>
    /\ built = 0
    /\ radical_sets = <<>>
    /\ calls = NoCalls
    /\ cached_id = 0
    /\ last = InitCall

OuterProduct(radical_set, rank) ==
    /\ Idle
    /\ IF ~RankAccepted(rank)
       THEN /\ last' = [ op |-> "outer_product", radical_set |-> radical_set,
                         rank |-> rank, ret |-> InvalidRankError(rank) ]
            /\ db_cache' = slot_after_outer_product(db_cache, bundled,
                                                     radical_set, rank)
            /\ UNCHANGED <<enum_cache, bundled, db, built, radical_sets, calls, cached_id>>
       ELSE LET d == get_cached_database(db_cache, bundled)
            IN  /\ db_cache' = slot_after_outer_product(db_cache, bundled,
                                                         radical_set, rank)
                /\ built' = built + constructions(db_cache)
                /\ enum_cache' =
                       IF enumerates(radical_set, rank)
                       THEN CacheAfter(enum_cache, rank) ELSE enum_cache
                /\ last' = [ op |-> "outer_product",
                             radical_set |-> radical_set, rank |-> rank,
                             instance |-> built + constructions(db_cache),
                             enumerated |-> enumerates(radical_set, rank),
                             ret |-> outer_product_on(d, radical_set, rank) ]
                /\ cached_id' = built + constructions(db_cache)
                /\ UNCHANGED <<bundled, db, radical_sets, calls>>

Next ==
    \/ Idle /\ \E radical_set \in RadicalSets : \E rank \in Ranks :
         OuterProduct(radical_set, rank)
    \/ Return

Spec == Init /\ [][Next]_vars

\* tensor.py: outer_product and the reset of the process-wide database
\* _get_cached_database.cache_clear()
CacheClear ==
    /\ Idle
    /\ built < MaxBuilds
    /\ db_cache' = <<>>
    /\ cached_id' = 0
    /\ last' = [op |-> "cache_clear"]
    /\ UNCHANGED <<enum_cache, bundled, db, built, radical_sets, calls>>

NextCache ==
    \/ Idle /\ \E radical_set \in RadicalSets : \E rank \in CacheRanks :
         OuterProduct(radical_set, rank)
    \/ CacheClear
    \/ Return

SpecCache == Init /\ [][NextCache]_vars

\* tensor.py: a caller indexes the TensorResult outer_product returned
InitTensor ==
    /\ enum_cache = {}
    /\ bundled \in TensorDatasets
    /\ db = EmptyDatabase
    /\ db_cache = <<>>
    /\ built = 0
    /\ radical_sets = <<>>
    /\ calls = NoCalls
    /\ cached_id = 0
    /\ last = InitCall

\* the caller holds the tensor the last call returned or indexed
HoldsTensor ==
    \/ last.op = "outer_product" /\ last.ret.ok
    \/ last.op = "getitem"

HeldTensor ==
    IF last.op = "outer_product" THEN last.ret.value ELSE last.tensor

\* tensor[index]
GetItem(index) ==
    /\ HoldsTensor
    /\ last' = [ op |-> "getitem", tensor |-> HeldTensor, index |-> index,
                 bare |-> FALSE, ret |-> getitem(HeldTensor, index) ]
    /\ UNCHANGED <<enum_cache, bundled, db, db_cache, built, radical_sets, calls, cached_id>>

\* tensor[k] with k an int: "if not isinstance(index, tuple): index =
\* (index,)" makes it the tuple of one coordinate
GetItemInt(k) ==
    /\ HoldsTensor
    /\ last' = [ op |-> "getitem", tensor |-> HeldTensor, index |-> <<k>>,
                 bare |-> TRUE, ret |-> getitem(HeldTensor, <<k>>) ]
    /\ UNCHANGED <<enum_cache, bundled, db, db_cache, built, radical_sets, calls, cached_id>>

NextTensor ==
    \/ Idle /\ \E radical_set \in RadicalSets :
         \E rank \in (MIN_RANK - 1)..MaxIndexRank :
           OuterProduct(radical_set, rank)
    \/ HoldsTensor /\ \E index \in Indices(HeldTensor.rank, HeldTensor.size) :
         GetItem(index)
    \/ HoldsTensor /\ \E k \in (-1)..HeldTensor.size : GetItemInt(k)
    \/ Return

SpecTensor == InitTensor /\ [][NextTensor]_vars

\* the reads of a constructed database and of the process-wide one
NextFrame ==
    \/ Idle /\ \E ids_string \in IdsQueries : LookupByIds(ids_string)
    \/ Idle /\ \E components \in ComponentQueries :
         LookupByComponents(components)
    \/ Idle /\ \E radical_counts \in CompositionQueries :
         LookupByComposition(radical_counts)
    \/ Idle /\ \E char \in CharQueries : GetIds(char)
    \/ IterWuXingChars
    \/ Idle /\ \E radical_set \in RadicalSets : \E rank \in CacheRanks :
         OuterProduct(radical_set, rank)
    \/ Return

SpecFrame == InitDb /\ [][NextFrame]_vars

\* rs = RadicalSet(name, radicals)
NewRadicalSet(name, radicals) ==
    /\ Idle
    /\ Len(radical_sets) < MaxSets
    /\ LET r == RadicalSet(name, radicals)
       IN  /\ radical_sets' = IF r.ok THEN Append(radical_sets, r.value)
                              ELSE radical_sets
           /\ last' = [op |-> "RadicalSet", name |-> name,
                       radicals |-> radicals, ret |-> r]
    /\ UNCHANGED <<enum_cache, bundled, db, db_cache, built, calls, cached_id>>

NextSets ==
    \/ Idle /\ \E name \in Names : \E radicals \in RadicalLists :
           NewRadicalSet(name, radicals)
    \/ Return

InitSets ==
    /\ enum_cache = {}
    /\ bundled = <<>>
    /\ db = EmptyDatabase
    /\ db_cache = <<>>
    /\ built = 0
    /\ radical_sets = <<>>
    /\ calls = NoCalls
    /\ cached_id = 0
    /\ last = InitCall

SpecSets == InitSets /\ [][NextSets]_vars

IsCjkCharacter(char) ==
    /\ Idle
    /\ last' = [op |-> "is_cjk_character", char |-> char,
                ret |-> is_cjk_character(char)]
    /\ UNCHANGED <<enum_cache, bundled, db, db_cache, built, radical_sets, calls, cached_id>>

IsSimplifiedOnly(char) ==
    /\ Idle
    /\ last' = [op |-> "is_simplified_only", char |-> char,
                ret |-> is_simplified_only(char)]
    /\ UNCHANGED <<enum_cache, bundled, db, db_cache, built, radical_sets, calls, cached_id>>

ValidateRadical(char) ==
    /\ Idle
    /\ last' = [op |-> "validate_radical", char |-> char,
                ret |-> validate_radical(char)]
    /\ UNCHANGED <<enum_cache, bundled, db, db_cache, built, radical_sets, calls, cached_id>>

NextValidation ==
    \/ Idle /\ \E char \in ValidationStrs : IsCjkCharacter(char)
    \/ Idle /\ \E char \in ValidationStrs : IsSimplifiedOnly(char)
    \/ Idle /\ \E char \in ValidationStrs : ValidateRadical(char)
    \/ Return

SpecValidation == InitSets /\ [][NextValidation]_vars

\* s = db.lookup_...(...); s.add(x) or s.discard(x)
MutateLookupResult(method, x) ==
    /\ last.op \in {"lookup_by_components", "lookup_by_composition"}
    /\ LET obj == IF last.op = "lookup_by_composition"
                  THEN returned_by_composition(db, last.radical_counts)
                  ELSE <<>>
       IN  /\ db' = after_mutation(db, obj, method, x)
           /\ last' = [ op |-> "mutate", call |-> last.op, method |-> method,
                        x |-> x, shared |-> obj # <<>>,
                        ret |-> PySet(mutated(last.ret.value, method, x)) ]
    /\ UNCHANGED <<enum_cache, bundled, db_cache, built, radical_sets, calls, cached_id>>

\* result = outer_product(...); result[index].add(x) or .discard(x)
MutateCell(index, method, x) ==
    /\ last.op = "outer_product"
    /\ last.ret.ok
    /\ index \in DOMAIN last.ret.value.data
    /\ LET d == db_cache[1]
           t == last.ret.value
           obj == cell_object(d, t.radical_set, index)
       IN  /\ db_cache' = <<after_mutation(d, obj, method, x)>>
           /\ last' = [ op |-> "mutate_cell", index |-> index,
                        method |-> method, x |-> x, shared |-> obj # <<>>,
                        before |-> t,
                        tensor |-> [t EXCEPT !.data =
                            cells_after_mutation(d, t, index, method, x)] ]
    /\ UNCHANGED <<enum_cache, bundled, db, built, radical_sets, calls, cached_id>>

NextShared ==
    \/ Idle /\ \E ids_data \in ConstructorArgs : NewCharacterDatabase(ids_data)
    \/ Idle /\ \E components \in ComponentQueries :
         LookupByComponents(components)
    \/ Idle /\ \E radical_counts \in CompositionQueries :
         LookupByComposition(radical_counts)
    \/ Idle /\ \E radical_set \in RadicalSets :
         \E rank \in (MIN_RANK - 1)..MaxIndexRank :
           OuterProduct(radical_set, rank)
    \/ last.op \in {"lookup_by_components", "lookup_by_composition"}
         /\ \E method \in {"add", "discard"} : \E x \in MutationChars :
              MutateLookupResult(method, x)
    \/ (last.op = "outer_product" /\ last.ret.ok)
         /\ \E method \in {"add", "discard"} : \E x \in MutationChars :
              \E index \in DOMAIN last.ret.value.data :
                MutateCell(index, method, x)
    \/ Return

SpecShared == InitTensor /\ [][NextShared]_vars

\* thread t calls outer_product(radical_set, rank): the rank is tested
ThreadCall(t, radical_set, rank) ==
    /\ calls[t].pc = "idle"
    /\ calls' = [calls EXCEPT ![t] =
           IF ~RankAccepted(rank)
           THEN [@ EXCEPT !.pc = "done", !.radical_set = radical_set,
                          !.rank = rank, !.ret = InvalidRankError(rank)]
           ELSE [@ EXCEPT !.pc = "lookup", !.radical_set = radical_set,
                          !.rank = rank]]
    /\ UNCHANGED <<enum_cache, bundled, db, db_cache, built, radical_sets,
                   cached_id, last>>

\* the wrapper of lru_cache looks for the instance: a hit returns it, a miss
\* goes on to call the function, and nothing keeps a second thread from
\* missing before the first has stored
CacheLookup(t) ==
    /\ calls[t].pc = "lookup"
    /\ calls' = [calls EXCEPT ![t] =
           IF db_cache # <<>>
           THEN [@ EXCEPT !.pc = "compute", !.instance = cached_id]
           ELSE [@ EXCEPT !.pc = "construct"]]
    /\ UNCHANGED <<enum_cache, bundled, db, db_cache, built, radical_sets,
                   cached_id, last>>

\* the function runs: return CharacterDatabase()
Construct(t) ==
    /\ calls[t].pc = "construct"
    /\ built' = built + 1
    /\ calls' = [calls EXCEPT ![t] =
                    [@ EXCEPT !.pc = "store", !.instance = built + 1]]
    /\ UNCHANGED <<enum_cache, bundled, db, db_cache, radical_sets,
                   cached_id, last>>

\* the wrapper stores the instance unless one was stored during the call,
\* and returns the instance its own call made
CacheStore(t) ==
    /\ calls[t].pc = "store"
    /\ IF db_cache = <<>>
       THEN /\ db_cache' = <<CharacterDatabase(NoMapping, bundled)>>
            /\ cached_id' = calls[t].instance
       ELSE UNCHANGED <<db_cache, cached_id>>
    /\ calls' = [calls EXCEPT ![t] = [@ EXCEPT !.pc = "compute"]]
    /\ UNCHANGED <<enum_cache, bundled, db, built, radical_sets, last>>

\* the cells are computed from the instance the thread holds
ComputeCells(t) ==
    /\ calls[t].pc = "compute"
    /\ LET c == calls[t]
           d == CharacterDatabase(NoMapping, bundled)
       IN  /\ calls' = [calls EXCEPT ![t] =
                  [@ EXCEPT !.pc = "done",
                            !.ret = outer_product_on(d, c.radical_set, c.rank)]]
           /\ enum_cache' = IF enumerates(c.radical_set, c.rank)
                            THEN CacheAfter(enum_cache, c.rank) ELSE enum_cache
    /\ UNCHANGED <<bundled, db, db_cache, built, radical_sets, cached_id, last>>

NextThreads ==
    \/ \E t \in 1..MaxThreads : \E radical_set \in {<<Jin>>, <<Jin, Mu>>, <<Ri>>} :
         \E rank \in {MIN_RANK - 1, MIN_RANK, MIN_RANK + 1} :
           ThreadCall(t, radical_set, rank)
    \/ \E t \in 1..MaxThreads : CacheLookup(t)
    \/ \E t \in 1..MaxThreads : Construct(t)
    \/ \E t \in 1..MaxThreads : CacheStore(t)
    \/ \E t \in 1..MaxThreads : ComputeCells(t)

SpecThreads == InitTensor /\ [][NextThreads]_vars

----------------------------------------------------------------------------
(* Properties of ids.py, under SpecIds *)

\* the number of trees the recurrence gives:
\* T(1) = 1, T(n) = 10 * sum T(k) T(n-k) + 2 * sum T(i) T(j) T(k)
RECURSIVE TreeCount(_)
RECURSIVE SumOver(_, _)
SumOver(S, n) ==
    IF S = {} THEN 0
    ELSE LET t == CHOOSE x \in S : TRUE
         IN  (IF Len(t) = 2
              THEN TreeCount(t[1]) * TreeCount(t[2])
              ELSE TreeCount(t[1]) * TreeCount(t[2]) * TreeCount(t[3]))
             + SumOver(S \ {t}, n)
TreeCount(n) ==
    IF n = 1 THEN 1
    ELSE 10 * SumOver({<<k, n - k>> : k \in 1..(n - 1)}, n)
         + 2 * SumOver({t \in (1..n) \X (1..n) \X (1..n) :
                            t[1] + t[2] + t[3] = n}, n)

\* C1: for every n >= 1 enumerate_structures(n) returns a non-empty tuple
\* whose every tree has component_count = n, and a repeated call (a call that
\* finds n cached) returns the tuple the enumeration gives for n, in the
\* same order; n is cached after the call.
C1_EnumerateNonEmptyStable ==
    (last.op = "enumerate_structures" /\ last.n >= 1) =>
        /\ last.ret.ok
        /\ Len(last.ret.value) >= 1
        /\ \A i \in 1..Len(last.ret.value) :
               component_count(last.ret.value[i]) = last.n
        /\ last.n \in enum_cache
        /\ last.hit => last.ret.value = StructuresUpTo(last.n)[last.n]

\* a repeated call with n = 3: the tuple holds binary and ternary roots
C1_Witness ==
    /\ last.op = "enumerate_structures"
    /\ last.n = 3
    /\ last.hit
    /\ last.ret.ok
    /\ \E i \in 1..Len(last.ret.value) : last.ret.value[i].operator.arity = 3

\* C2: T(1) = 1, T(2) = 10, T(3) = 202 of which 200 have a binary root and 2
\* a ternary root, and T(n) follows the recurrence for every n.
C2_TreeCounts ==
    (last.op = "enumerate_structures" /\ last.n >= 1) =>
        LET trees == last.ret.value
            roots(a) == {i \in 1..Len(trees) : trees[i].operator.arity = a}
        IN  /\ Len(trees) = TreeCount(last.n)
            /\ last.n = 1 => Len(trees) = 1
            /\ last.n = 2 => Len(trees) = 10
            /\ last.n = 3 => /\ Len(trees) = 202
                             /\ Cardinality(roots(2)) = 200
                             /\ Cardinality(roots(3)) = 2

C2_Witness ==
    /\ last.op = "enumerate_structures"
    /\ last.n = 3
    /\ last.ret.ok
    /\ Len(last.ret.value) = 202

----------------------------------------------------------------------------
(* Properties of character_db.py, under SpecDb *)

\* the characters of the database whose record is exactly ids_string
CharsWithIds(d, ids_string) ==
    {c \in Keys(d.char_to_ids) : IdsOf(d.char_to_ids, c) = ids_string}

\* C5: lookup_by_ids on a string that no character of the database has
\* returns the empty set, never an error and never a value that is not a set.
C5_UnknownIdsEmptySet ==
    (last.op = "lookup_by_ids" /\ CharsWithIds(db, last.ids_string) = {}) =>
        /\ last.ret.type = "set"
        /\ last.ret.value = {}

\* C6: when two distinct characters of the supplied mapping share one
\* decomposition string, lookup_by_ids on that string returns the set that
\* holds both of them.
C6_SharedIdsReturnsAll ==
    (last.op = "lookup_by_ids"
     /\ Cardinality(CharsWithIds(db, last.ids_string)) >= 2) =>
        /\ last.ret.type = "set"
        /\ last.ret.value = CharsWithIds(db, last.ids_string)

\* how many times x occurs in the sequence s
Occurrences(x, s) == Cardinality({p \in DOMAIN s : s[p] = x})

\* the sum of two count dictionaries
SumCounts(a, b) ==
    [r \in (DOMAIN a) \cup (DOMAIN b) |->
        (IF r \in DOMAIN a THEN a[r] ELSE 0)
        + (IF r \in DOMAIN b THEN b[r] ELSE 0)]

\* the components of a decomposition string: what is left of it when the
\* operator symbols are removed, in order
ComponentsOf(ids) ==
    LET keep == {p \in DOMAIN ids : ids[p] \notin IDS_OPERATORS}
        RECURSIVE take(_)
        take(P) == IF P = {} THEN <<>>
                   ELSE LET m == CHOOSE x \in P : \A y \in P : x <= y
                        IN  <<ids[m]>> \o take(P \ {m})
    IN  take(keep)

\* the expansion as C7 states it: a stop component is {itself: 1}; any other
\* character is the sum of the expansions of the components of its string,
\* failing if one of them fails. A character with no string has nothing to
\* expand and fails; fuel, one more than the number of records, is spent
\* only by an expansion that runs through a character twice, which fails.
RECURSIVE ClaimExpand(_, _, _)
RECURSIVE ClaimExpandAll(_, _, _)
ClaimExpand(c, items, fuel) ==
    IF c \in WU_XING_RADICALS THEN Counts(DictSet(EmptyDict, c, 1))
    ELSE IF fuel = 0 \/ c \notin Keys(items) THEN NoCounts
    ELSE ClaimExpandAll(ComponentsOf(IdsOf(items, c)), items, fuel - 1)
ClaimExpandAll(cs, items, fuel) ==
    IF cs = <<>> THEN Counts(EmptyDict)
    ELSE LET h == ClaimExpand(Head(cs), items, fuel)
             t == ClaimExpandAll(Tail(cs), items, fuel)
         IN  IF h.none \/ t.none THEN NoCounts
             ELSE Counts(SumCounts(h.dict, t.dict))

\* the expansion with the failures C7 leaves out: nesting deeper than 10
\* levels, a string that does not begin with an operator symbol, a string
\* with no component
RECURSIVE AmendedExpand(_, _, _)
RECURSIVE AmendedExpandAll(_, _, _)
AmendedExpand(c, items, level) ==
    IF level > 10 THEN NoCounts
    ELSE IF c \in WU_XING_RADICALS
    THEN Counts(DictSet(EmptyDict, c, 1))
    ELSE IF c \notin Keys(items) THEN NoCounts
    ELSE LET ids == IdsOf(items, c)
         IN  IF Len(ids) = 0 THEN NoCounts
             ELSE IF ids[1] \notin IDS_OPERATORS THEN NoCounts
             ELSE IF ComponentsOf(ids) = <<>> THEN NoCounts
             ELSE AmendedExpandAll(ComponentsOf(ids), items, level + 1)
AmendedExpandAll(cs, items, level) ==
    IF cs = <<>> THEN Counts(EmptyDict)
    ELSE LET h == AmendedExpand(Head(cs), items, level)
             t == AmendedExpandAll(Tail(cs), items, level)
         IN  IF h.none \/ t.none THEN NoCounts
             ELSE Counts(SumCounts(h.dict, t.dict))

\* C7 as stated: lookup_by_composition(counts) returns exactly the
\* characters of the database whose expansion succeeds and yields counts.
C7_CompositionAsStated ==
    last.op = "lookup_by_composition" =>
        last.ret = PySet({c \in Keys(db.char_to_ids) :
            LET e == ClaimExpand(c, db.char_to_ids, Len(db.char_to_ids) + 1)
            IN  ~e.none /\ e.dict = last.radical_counts})

\* C7: lookup_by_composition(counts) returns exactly the characters of the
\* database whose expansion succeeds and yields counts, where the expansion
\* also fails for a character with no decomposition string, with a string
\* that does not begin with an operator symbol or has no component, and for
\* nesting deeper than 10 levels; a character that nests other characters
\* (森 = op(木, 林), 林 = op(木, 木)) is returned for {木: 3}.
C7_Composition ==
    last.op = "lookup_by_composition" =>
        /\ last.ret = PySet({c \in Keys(db.char_to_ids) :
               LET e == AmendedExpand(c, db.char_to_ids, 0)
               IN  ~e.none /\ e.dict = last.radical_counts})
        /\ ( /\ last.radical_counts = DictSet(EmptyDict, Mu, 3)
             /\ IdsOf(db.char_to_ids, Sen) = <<OpTB, Mu, Lin>>
             /\ IdsOf(db.char_to_ids, Lin) = <<OpLR, Mu, Mu>> )
           => Sen \in last.ret.value

\* {木: 3} finds 森, whose record nests 林
C7_Witness ==
    /\ last.op = "lookup_by_composition"
    /\ last.radical_counts = DictSet(EmptyDict, Mu, 3)
    /\ IdsOf(db.char_to_ids, Sen) = <<OpTB, Mu, Lin>>
    /\ Sen \in last.ret.value

\* the sequences a and b hold the same components the same number of times
SameMultiset(a, b) ==
    \A x \in Range(a) \cup Range(b) : Occurrences(x, a) = Occurrences(x, b)

\* C8: lookup_by_components(L) returns exactly the characters whose
\* decomposition string, operator symbols removed, has the multiset of
\* components of L; every reordering of L gives the same result, and a
\* multiset that matches no record gives the empty set.
C8_ComponentsMultiset ==
    last.op = "lookup_by_components" =>
        LET L == last.components
            matching == {c \in Keys(db.char_to_ids) :
                SameMultiset(ComponentsOf(IdsOf(db.char_to_ids, c)), L)}
        IN  /\ last.ret = PySet(matching)
            /\ \A L2 \in ComponentQueries :
                   SameMultiset(L2, L) =>
                       lookup_by_components(db, L2) = last.ret.value
            /\ matching = {} => last.ret.value = {}

\* [林, 木], given out of sorted order, finds 森 = op(木, 林)
C8_Witness ==
    /\ last.op = "lookup_by_components"
    /\ last.components = <<Lin, Mu>>
    /\ last.ret.value = {Sen}

----------------------------------------------------------------------------
(* Properties of tensor.py, under Spec *)

\* the components an index tuple selects, by position
CellComponents(radical_set, ix) ==
    [p \in DOMAIN ix |-> radical_set[ix[p] + 1]]

\* the count of each component of the sequence s
CountOfEach(s) == [c \in Range(s) |-> Occurrences(c, s)]

\* every element of the radical set is one of the five stop components
ClosedDomain(radical_set) ==
    \A i \in DOMAIN radical_set :
        radical_set[i] \in {Jin, Mu, Shui, Huo, Tu}

C4_OpenDomainCells ==
    (last.op = "outer_product" /\ last.rank \in 2..5
     /\ ~ClosedDomain(last.radical_set)) =>
        /\ last.ret.ok
        /\ \A ix \in DOMAIN last.ret.value.data :
               LET cs == CellComponents(last.radical_set, ix)
                   shapes == StructuresUpTo(last.rank)[last.rank]
               IN  last.ret.value.data[ix] =
                       UNION { CharsWithIds(db_cache[1],
                                   build_ids_string(shapes[i], cs).value) :
                               i \in 1..Len(shapes) }
                       \cup lookup_by_components(db_cache[1], cs)

----------------------------------------------------------------------------
(* Properties of the process-wide database, under SpecCache *)

\* C11: the database of outer_product is built by the first call that needs
\* it and then reused. CharacterDatabase() runs only in a call that finds
\* no cached instance, a call that finds one uses it and builds nothing,
\* and the cached instance goes away only by a reset; so between two resets
\* it is built at most once. After a reset the next call that passes the
\* rank check builds a new instance.
C11_LazyCachedDatabase ==
    [][ /\ built = 0 => db_cache = <<>>
        /\ built' # built =>
               /\ last'.op = "outer_product"
               /\ db_cache = <<>>
               /\ db_cache' # <<>>
               /\ built' = built + 1
        /\ (last'.op = "outer_product" /\ db_cache # <<>>) =>
               /\ db_cache' = db_cache
               /\ built' = built
        /\ (db_cache # <<>> /\ db_cache' = <<>>) => last'.op = "cache_clear"
        /\ (last'.op = "outer_product" /\ last'.rank \in 2..8
            /\ db_cache = <<>>) =>
               /\ built' = built + 1
               /\ db_cache' # <<>>
        /\ (last'.op = "outer_product" /\ last'.rank \in 2..8) =>
               last'.instance = built'
      ]_vars

\* a call after a reset runs on the second instance built
C11_Witness ==
    /\ last.op = "outer_product"
    /\ last.rank = 2
    /\ last.instance = 2
    /\ built = 2
    /\ db_cache # <<>>

----------------------------------------------------------------------------
(* Properties of the reads, under SpecFrame *)

ReadOps ==
    { "lookup_by_ids", "lookup_by_components", "lookup_by_composition",
      "get_ids", "iter_wu_xing_chars", "outer_product" }

\* C12: no lookup_by_ids, lookup_by_components, lookup_by_composition,
\* get_ids, iter_wu_xing_chars or outer_product call changes the character
\* map or an index of a constructed database: the caller's database is after
\* the call what it was before, the process-wide database is, once built,
\* what CharacterDatabase() built, and a lookup that misses leaves its key
\* out of the index.
C12_ReadsLeaveDatabase ==
    [][ last'.op \in ReadOps =>
          /\ db' = db
          /\ db_cache # <<>> => db_cache' = db_cache
          /\ db_cache' # <<>> =>
                 db_cache'[1] = CharacterDatabase(NoMapping, bundled)
          /\ last'.op = "lookup_by_components" =>
                 DOMAIN db'.component_index = DOMAIN db.component_index
          /\ last'.op = "lookup_by_composition" =>
                 DOMAIN db'.wu_xing_index = DOMAIN db.wu_xing_index
      ]_vars

\* a lookup_by_components that misses, on a database that holds records,
\* after outer_product has built the process-wide database
C12_Witness ==
    /\ last.op = "lookup_by_components"
    /\ last.ret.value = {}
    /\ last.components = <<Jin, Mu, Lin>>
    /\ DOMAIN db.component_index # {}
    /\ <<Mu, Lin, Jin>> \notin DOMAIN db.component_index
    /\ db_cache # <<>>

----------------------------------------------------------------------------
(* Properties of the construction, under SpecDb *)

\* the characters c is recorded with, and the characters they are recorded
\* with, and so on; the characters of stop are not looked into
RECURSIVE ComponentsBelow(_, _, _)
ComponentsBelow(S, items, stop) ==
    LET more == S \cup UNION { Range(ComponentsOf(IdsOf(items, x))) :
                               x \in S \ stop }
    IN  IF more = S THEN S ELSE ComponentsBelow(more, items, stop)

\* the decomposition of c contains c, directly or through other characters
ContainsItself(c, items, stop) ==
    /\ c \notin stop
    /\ c \in ComponentsBelow(Range(ComponentsOf(IdsOf(items, c))), items, stop)

\* the characters the restricted index holds
Indexed(d) == UNION {d.wu_xing_index[key] : key \in DOMAIN d.wu_xing_index}

\* C13 as stated: the construction ends without error for every mapping,
\* and every character whose decomposition contains itself, directly or
\* through other characters, is left out of the restricted index.
C13_CyclicLeftOutAsStated ==
    last.op = "CharacterDatabase" =>
        /\ last.depth <= MAX_DEPTH + 1
        /\ \A c \in Keys(db.char_to_ids) :
               ContainsItself(c, db.char_to_ids, {}) => c \notin Indexed(db)

\* C13: the construction ends without error for every mapping: the
\* recursion never goes deeper than 11 calls. A character whose
\* decomposition contains itself, directly or through other characters
\* that are not stop components, is left out of the restricted index, and
\* every character whose expansion succeeds is indexed under its counts. A
\* stop component is indexed as {itself: 1} whatever its record.
C13_CyclicLeftOut ==
    last.op = "CharacterDatabase" =>
        /\ last.depth <= MAX_DEPTH + 1
        /\ \A c \in Keys(db.char_to_ids) :
               LET e == AmendedExpand(c, db.char_to_ids, 0)
               IN  /\ ContainsItself(c, db.char_to_ids, WU_XING_RADICALS)
                          => c \notin Indexed(db)
                   /\ ~e.none =>
                          /\ sorted_items(e.dict) \in DOMAIN db.wu_xing_index
                          /\ c \in db.wu_xing_index[sorted_items(e.dict)]
                   /\ c \in WU_XING_RADICALS =>
                          e.dict = DictSet(EmptyDict, c, 1)

\* the mapping with the cycle of two: both are left out, 林 is indexed
C13_Witness ==
    /\ last.op = "CharacterDatabase"
    /\ Keys(db.char_to_ids) = {CycleA, CycleB, Lin, Mu}
    /\ ContainsItself(CycleA, db.char_to_ids, WU_XING_RADICALS)
    /\ last.depth = MAX_DEPTH + 1
    /\ Indexed(db) = {Lin, Mu}

----------------------------------------------------------------------------
(* Properties of TensorResult, under SpecTensor *)

\* C14: indexing a TensorResult fails with IndexError whenever a coordinate
\* of the index is below 0 or not below size, and for an index of rank
\* coordinates all in [0, size) it does not fail and returns the set of the
\* cell.
C14_IndexBounds ==
    last.op = "getitem" =>
        LET t == last.tensor
            index == last.index
            outside == \E i \in 1..Len(index) :
                           index[i] < 0 \/ index[i] > t.size - 1
        IN  /\ outside => (~last.ret.ok /\ last.ret.error = "IndexError")
            /\ (~outside /\ Len(index) = t.rank) =>
                   /\ last.ret.ok
                   /\ last.ret.value = t.data[index]
                   /\ last.ret.value \subseteq Keys(db_cache[1].char_to_ids)

\* the cell (木, 木) of rank 2 on (金, 木) is read and holds 林
C14_Witness ==
    /\ last.op = "getitem"
    /\ last.tensor.radical_set = <<Jin, Mu>>
    /\ last.index = <<1, 1>>
    /\ last.ret.ok
    /\ last.ret.value = {Lin}

----------------------------------------------------------------------------
(* Properties of the result of outer_product, under Spec *)

\* s to the power r
RECURSIVE Power(_, _)
Power(s, r) == IF r = 0 THEN 1 ELSE s * Power(s, r - 1)

\* C15: for every radical set of size s and every accepted rank r,
\* outer_product returns a result of rank r and shape (s, ..., s) of length
\* r that holds a cell, a set, for every one of the s^r index tuples of
\* [0, s)^r.
C15_ShapeAndCells ==
    (last.op = "outer_product" /\ last.rank \in 2..8) =>
        LET s == Len(last.radical_set)
            r == last.rank
        IN  /\ last.ret.ok
            /\ last.ret.value.rank = r
            /\ shape(last.ret.value) = [p \in 1..r |-> s]
            /\ DOMAIN last.ret.value.data = [1..r -> 0..(s - 1)]
            /\ Cardinality(DOMAIN last.ret.value.data) = Power(s, r)

\* what holds of the calls that return: the result has rank r, shape
\* (s, ..., s) and s^r cells
C15_ShapeOfReturned ==
    (last.op = "outer_product" /\ last.ret.ok) =>
        LET s == Len(last.radical_set)
            r == last.rank
        IN  /\ last.ret.value.rank = r
            /\ shape(last.ret.value) = [p \in 1..r |-> s]
            /\ DOMAIN last.ret.value.data = [1..r -> 0..(s - 1)]
            /\ Cardinality(DOMAIN last.ret.value.data) = Power(s, r)

----------------------------------------------------------------------------
(* Properties of the errors of ids.py, under SpecIds *)

\* the leaves of a tree
RECURSIVE LeafCount(_)
RECURSIVE LeafCountAll(_)
LeafCount(s) ==
    IF s.children = <<>> THEN 1 ELSE LeafCountAll(s.children)
LeafCountAll(children) ==
    IF children = <<>> THEN 0
    ELSE LeafCount(Head(children)) + LeafCountAll(Tail(children))

\* C17: build_ids_string on a leaf with exactly one component returns that
\* component unchanged; for every tree it fails with ValueError, and returns
\* no string, exactly when fewer or more components are supplied than the
\* tree has leaves.
C17_BuildArity ==
    last.op = "build_ids_string" =>
        LET given == Len(last.radicals)
            needed == LeafCount(last.structure)
        IN  /\ (given < needed \/ given > needed) =>
                   /\ ~last.ret.ok
                   /\ last.ret.error = "ValueError"
                   /\ DOMAIN last.ret = {"ok", "error"}
            /\ given = needed => last.ret.ok
            /\ (needed = 1 /\ given = 1) =>
                   last.ret.value = <<last.radicals[1]>>

\* the leaf with the one component 金 gives 金
C17_Witness ==
    /\ last.op = "build_ids_string"
    /\ last.structure = LEAF
    /\ last.radicals = <<Jin>>
    /\ last.ret.ok
    /\ last.ret.value = <<Jin>>

\* C18: enumerate_structures(n) fails with ValueError for every n < 1, zero
\* and negative, returns no trees and caches nothing; a call with a valid n
\* returns the trees of n whatever calls failed before it.
C18_InvalidDomain ==
    [][ last'.op = "enumerate_structures" =>
          /\ last'.n < 1 =>
                 /\ ~last'.ret.ok
                 /\ last'.ret.error = "ValueError"
                 /\ DOMAIN last'.ret = {"ok", "error"}
                 /\ enum_cache' = enum_cache
          /\ last'.n >= 1 =>
                 /\ last'.ret.ok
                 /\ Len(last'.ret.value) = TreeCount(last'.n)
                 /\ \A i \in 1..Len(last'.ret.value) :
                        LeafCount(last'.ret.value[i]) = last'.n
      ]_vars

\* enumerate_structures(0) has raised and left the cached trees of 2
C18_Witness ==
    /\ last.op = "enumerate_structures"
    /\ last.n = 0
    /\ ~last.ret.ok
    /\ enum_cache = 1..2

----------------------------------------------------------------------------
(* Properties of RadicalSet, under SpecSets *)

\* some element of the list occurs at two positions
Repeats(radicals) ==
    \E i, j \in DOMAIN radicals : i < j /\ radicals[i] = radicals[j]

\* one CJK character that is not simplified-only
Validated(char) ==
    /\ Len(char) = 1
    /\ \E k \in DOMAIN cjk_ranges :
           cjk_ranges[k][1] <= char[1] /\ char[1] <= cjk_ranges[k][2]
    /\ char[1] \notin {Che, Shuo, LongSimplified}

\* the position of the first element that is not validated
FirstInvalid(radicals) ==
    CHOOSE i \in DOMAIN radicals :
        /\ ~Validated(radicals[i])
        /\ \A j \in 1..(i - 1) : Validated(radicals[j])

EmptySet(ret) ==
    /\ ~ret.ok
    /\ ret.error = "ValueError"
    /\ ret.message = "RadicalSet requires at least one radical"

DuplicateComponent(ret) ==
    /\ ~ret.ok
    /\ ret.error = "ValueError"
    /\ ret.message = "RadicalSet cannot contain duplicate radicals"

ValidatorError(ret) ==
    /\ ~ret.ok
    /\ ret.error \in {"InvalidRadicalError", "SimplifiedChineseError"}

\* every RadicalSet that exists is non-empty, free of duplicates, and holds
\* only validated components
ExistingSetsWellFormed ==
    \A k \in DOMAIN radical_sets :
        LET rs == radical_sets[k].radicals
        IN  /\ rs # <<>>
            /\ ~Repeats(rs)
            /\ \A i \in DOMAIN rs : Validated(rs[i])

\* a construction that returned kept the components in the order given
OrderKept ==
    (last.op = "RadicalSet" /\ last.ret.ok) =>
        /\ last.ret.value.radicals = last.radicals
        /\ radical_sets # <<>>
        /\ radical_sets[Len(radical_sets)] = last.ret.value

----------------------------------------------------------------------------
(* Properties of the failures of outer_product, under Spec *)

\* C20: outer_product either returns a complete result, one cell for every
\* index tuple, or raises and returns nothing; with a rank outside 2..8 it
\* raises InvalidRankError before the database is obtained or built and
\* before any cell is computed: the cached database, the count of
\* constructions and the cached structures are exactly as they were.
C20_AllOrNothing ==
    [][ last'.op = "outer_product" =>
          LET s == Len(last'.radical_set)
              r == last'.rank
          IN  /\ last'.ret.ok =>
                     /\ DOMAIN last'.ret = {"ok", "value"}
                     /\ DOMAIN last'.ret.value.data = [1..r -> 0..(s - 1)]
                     /\ \A ix \in DOMAIN last'.ret.value.data :
                            IsFiniteSet(last'.ret.value.data[ix])
              /\ ~last'.ret.ok => "value" \notin DOMAIN last'.ret
              /\ (r < MIN_RANK \/ r > MAX_RANK) =>
                     /\ ~last'.ret.ok
                     /\ last'.ret.error = "InvalidRankError"
                     /\ db_cache' = db_cache
                     /\ built' = built
                     /\ enum_cache' = enum_cache
      ]_vars

\* a call with rank 9 was refused while no database had been built
C20_Witness ==
    /\ last.op = "outer_product"
    /\ last.rank = MAX_RANK + 1
    /\ ~last.ret.ok
    /\ last.ret.error = "InvalidRankError"
    /\ db_cache = <<>>
    /\ built = 0

----------------------------------------------------------------------------
(* Properties of validation.py, under SpecValidation *)

\* C21: is_cjk_character returns true for every single code point of the
\* Extension J range U+323B0 to U+3347F inclusive, in particular for
\* U+3347F, and false for U+33480.
C21_ExtensionJ ==
    (last.op = "is_cjk_character" /\ Len(last.char) = 1) =>
        /\ last.char[1] \in 205744..ExtJLast => last.ret = TRUE
        /\ last.char[1] = ExtJAfter => last.ret = FALSE

\* what the code does at the upper end of Extension J: the range it tests
\* ends at U+3347B, the four code points after it are refused
ExtensionJOfTheCode ==
    (last.op = "is_cjk_character" /\ Len(last.char) = 1) =>
        /\ last.char[1] \in 205744..(ExtJLast - 4) => last.ret = TRUE
        /\ last.char[1] \in (ExtJLast - 3)..ExtJAfter => last.ret = FALSE

----------------------------------------------------------------------------
(* Properties of the serialization, under SpecIds *)

\* the symbols of all operators
OperatorSymbols ==
    {BINARY_OPS[i].symbol : i \in DOMAIN BINARY_OPS}
    \cup {TERNARY_OPS[i].symbol : i \in DOMAIN TERNARY_OPS}

\* the nodes of a tree that are not leaves
RECURSIVE InternalNodes(_)
RECURSIVE InternalNodesAll(_)
InternalNodes(s) ==
    IF s.children = <<>> THEN 0 ELSE 1 + InternalNodesAll(s.children)
InternalNodesAll(children) ==
    IF children = <<>> THEN 0
    ELSE InternalNodes(Head(children)) + InternalNodesAll(Tail(children))

\* the pre-order serialization: the operator of the root, then the
\* serializations of the children in order, the k-th child taking the
\* components that follow those of the children before it
RECURSIVE PreOrder(_, _)
RECURSIVE PreOrderAll(_, _)
PreOrder(s, components) ==
    IF s.children = <<>> THEN components
    ELSE <<s.operator.symbol>> \o PreOrderAll(s.children, components)
PreOrderAll(children, components) ==
    IF children = <<>> THEN <<>>
    ELSE LET k == LeafCount(Head(children))
         IN  PreOrder(Head(children), SubSeq(components, 1, k))
             \o PreOrderAll(Tail(children),
                            SubSeq(components, k + 1, Len(components)))

\* C22: for every tree and every component list of matching length,
\* build_ids_string is the pre-order serialization; removing the operator
\* symbols from the result gives the component list in its original order,
\* and the result has one symbol per internal node plus one per component.
C22_PreOrder ==
    (last.op = "build_ids_string"
        /\ Len(last.radicals) = LeafCount(last.structure)) =>
        /\ last.ret.ok
        /\ last.ret.value = PreOrder(last.structure, last.radicals)
        /\ SelectSeq(last.ret.value, LAMBDA c : c \notin OperatorSymbols)
               = last.radicals
        /\ Len(last.ret.value)
               = InternalNodes(last.structure) + Len(last.radicals)

\* a tree of two internal nodes, the left child of the root being one of
\* them, serialized with 金, 木, 金
C22_Witness ==
    /\ last.op = "build_ids_string"
    /\ last.radicals = <<Jin, Mu, Jin>>
    /\ InternalNodes(last.structure) = 2
    /\ ~is_leaf(last.structure.children[1])
    /\ last.ret.ok
    /\ Len(last.ret.value) = 5

----------------------------------------------------------------------------
(* Properties of the binary splits, under SpecIds *)

\* C23: for every n >= 2, enumerate_structures(n) contains the tree
\* (op, left, right) for every binary operator op, every split k in
\* [1, n-1] and every pair (left, right) of enumerate_structures(k) x
\* enumerate_structures(n-k), so both splits (k, n-k) and (n-k, k) are
\* present, and no tree occurs twice.
C23_BinarySplits ==
    (last.op = "enumerate_structures" /\ last.n >= 2) =>
        LET trees == last.ret.value
            E(k) == enumerate_structures(k).value
        IN  /\ \A o \in DOMAIN BINARY_OPS : \A k \in 1..(last.n - 1) :
                   \A l \in DOMAIN E(k) : \A r \in DOMAIN E(last.n - k) :
                       \E i \in DOMAIN trees :
                           /\ trees[i].operator = BINARY_OPS[o]
                           /\ trees[i].children = <<E(k)[l], E(last.n - k)[r]>>
            /\ \A i, j \in DOMAIN trees : trees[i] = trees[j] => i = j

\* enumerate_structures(3) holds a tree of the split (1, 2) and its mirror
\* of the split (2, 1)
C23_Witness ==
    /\ last.op = "enumerate_structures"
    /\ last.n = 3
    /\ last.ret.ok
    /\ \E i, j \in DOMAIN last.ret.value :
           LET a == last.ret.value[i]
               b == last.ret.value[j]
           IN  /\ a.operator = b.operator
               /\ Len(a.children) = 2
               /\ is_leaf(a.children[1]) /\ ~is_leaf(a.children[2])
               /\ b.children = <<a.children[2], a.children[1]>>

----------------------------------------------------------------------------
(* Properties of the depth bound, under SpecDb *)

\* the pairs <<component, depth>> the expansion of char ends in when it is
\* followed without the bound of the code: a stop component and a character
\* without decomposition end it; it is cut two levels after the bound, where
\* only a cyclic or an over-deep expansion arrives
RECURSIVE Reached(_, _, _)
Reached(char, items, depth) ==
    IF depth > MAX_DEPTH + 1 THEN {<<char, depth>>}
    ELSE IF char \in WU_XING_RADICALS THEN {<<char, depth>>}
    ELSE LET ids == IdsOf(items, char)
         IN  IF ids = <<>> \/ ids[1] \notin IDS_OPERATORS
             THEN {<<char, depth>>}
             ELSE UNION { Reached(x, items, depth + 1) :
                          x \in Range(ComponentsOf(ids)) }

\* C24: the recursive expansion is bounded at depth 10 counted from the
\* indexed character at depth 0: a character whose expansion ends in stop
\* components is in the restricted index when every component is reached at
\* depth at most 10, and it is left out when any component, even a stop
\* component, would be reached at depth 11 or more.
C24_DepthBound ==
    last.op = "CharacterDatabase" =>
        \A c \in Keys(db.char_to_ids) \ WU_XING_RADICALS :
            LET ends == Reached(c, db.char_to_ids, 0)
            IN  /\ (/\ ends # {}
                    /\ \A p \in ends :
                           p[1] \in WU_XING_RADICALS /\ p[2] <= 10)
                       => c \in Indexed(db)
                /\ (\E p \in ends : p[2] >= 11) => c \notin Indexed(db)

\* the chain of eleven characters: the tenth reaches 木 at depth 10 and is
\* indexed, the eleventh reaches it at depth 11 and is not
C24_Witness ==
    /\ last.op = "CharacterDatabase"
    /\ Len(db.char_to_ids) = MAX_DEPTH + 1
    /\ <<Mu, 10>> \in Reached(Chang + 10, db.char_to_ids, 0)
    /\ Chang + 10 \in Indexed(db)
    /\ Reached(Chang + 11, db.char_to_ids, 0) = {<<Mu, d>> : d \in 1..11}
    /\ Chang + 11 \notin Indexed(db)

----------------------------------------------------------------------------
(* Properties of the two open-domain strategies, under Spec *)

\* every character an exact lookup finds for a string built from an
\* enumerated shape and the components of a cell is in lookup_by_components
\* of these components, for the calls of the given ranks
ExactWithinComponents(ranks) ==
    (last.op = "outer_product" /\ last.rank \in ranks
     /\ ~ClosedDomain(last.radical_set)) =>
        \A ix \in IndexTuples(Len(last.radical_set), last.rank) :
            LET cs == CellComponents(last.radical_set, ix)
                shapes == enumerate_structures(last.rank).value
            IN  \A i \in 1..Len(shapes) :
                    LET found == lookup_by_ids(db_cache[1],
                                     build_ids_string(shapes[i], cs).value)
                    IN  found.type = "str" =>
                            found.value \in lookup_by_components(db_cache[1], cs)

\* C25: every character found by an exact lookup of a string built from any
\* enumerated shape and a component list is also in lookup_by_components of
\* that list; so in the open-domain strategy with rank <= 5 each cell equals
\* lookup_by_components of its components alone, the value the rank > 5
\* strategy gives.
C25_StrategiesAgree ==
    /\ (last.op = "outer_product" /\ last.rank \in 2..5
        /\ ~ClosedDomain(last.radical_set)) =>
           /\ last.ret.ok
           /\ \A ix \in DOMAIN last.ret.value.data :
                  last.ret.value.data[ix] =
                      ComponentsCell(db_cache[1],
                          CellComponents(last.radical_set, ix))
    /\ ExactWithinComponents(2..5)

\* the first half of C25 for the shapes of two and three components
ExactWithinComponentsLowRank == ExactWithinComponents(2..3)

\* the open-domain calls with rank <= 5 that return give the cells of the
\* rank > 5 strategy
StrategiesAgreeWhenReturned ==
    (last.op = "outer_product" /\ last.rank \in 2..5
     /\ ~ClosedDomain(last.radical_set) /\ last.ret.ok) =>
        \A ix \in DOMAIN last.ret.value.data :
            last.ret.value.data[ix] =
                ComponentsCell(db_cache[1],
                    CellComponents(last.radical_set, ix))

\* an open-domain call with rank <= 5 has returned a cell that is not empty
SomeOpenCallReturned ==
    /\ last.op = "outer_product"
    /\ last.rank \in 2..5
    /\ ~ClosedDomain(last.radical_set)
    /\ last.ret.ok
    /\ \E ix \in DOMAIN last.ret.value.data : last.ret.value.data[ix] # {}

----------------------------------------------------------------------------
(* Properties of the symmetry of the result, under Spec *)

\* the coordinates of ix in non-decreasing order: two index tuples are
\* permutations of each other exactly when they have the same arrangement
RECURSIVE Arranged(_, _, _)
Arranged(ix, v, size) ==
    IF v >= size THEN <<>>
    ELSE [p \in 1..Cardinality({q \in DOMAIN ix : ix[q] = v}) |-> v]
         \o Arranged(ix, v + 1, size)

----------------------------------------------------------------------------
(* Properties of the sets handed to callers, under SpecShared *)

\* the step changes the result of no lookup on database d
LookupsKept(d_before, d_after) ==
    /\ \A q \in CompositionQueries :
           lookup_by_composition(d_after, q) = lookup_by_composition(d_before, q)
    /\ \A c \in ComponentQueries :
           lookup_by_components(d_after, c) = lookup_by_components(d_before, c)

\* C27: sets handed to callers are independent of the database and of each
\* other: adding to or removing from a set returned by
\* lookup_by_components, lookup_by_composition or a TensorResult cell
\* changes neither the result of any later lookup on the database nor the
\* content of any other cell of the same or a later TensorResult.
C27_SetsIndependent ==
    [][ /\ last'.op = "mutate" => LookupsKept(db, db')
        /\ last'.op = "mutate_cell" =>
               /\ LookupsKept(db_cache[1], db_cache'[1])
               /\ \A jx \in DOMAIN last'.tensor.data :
                      jx # last'.index =>
                          last'.tensor.data[jx] = last'.before.data[jx]
               /\ outer_product_on(db_cache'[1], last'.before.radical_set,
                                   last'.before.rank)
                      = outer_product_on(db_cache[1], last'.before.radical_set,
                                         last'.before.rank)
      ]_vars

\* what holds of the code: a set of lookup_by_components, a set of a miss
\* and a cell of an open-domain result are the caller's own
C27_OwnSetsIndependent ==
    [][ /\ (last'.op = "mutate" /\ ~last'.shared) => db' = db
        /\ (last'.op = "mutate" /\ last'.call = "lookup_by_components")
               => ~last'.shared
        /\ (last'.op = "mutate_cell" /\ ~last'.shared) =>
               /\ db_cache' = db_cache
               /\ \A jx \in DOMAIN last'.tensor.data :
                      jx # last'.index =>
                          last'.tensor.data[jx] = last'.before.data[jx]
        /\ (last'.op = "mutate_cell"
            /\ ~is_wu_xing_set(last'.before.radical_set)) => ~last'.shared
      ]_vars

\* a character added to cell [0, 1] of the result for 金 and 木 is in cell
\* [1, 0] and in the index of the process-wide database
SharedCellChanged ==
    /\ last.op = "mutate_cell"
    /\ last.index = <<0, 1>>
    /\ last.method = "add"
    /\ last.x = LatinX
    /\ LatinX \notin last.before.data[<<1, 0>>]
    /\ LatinX \in last.tensor.data[<<1, 0>>]
    /\ LatinX \in Indexed(db_cache[1])

----------------------------------------------------------------------------
(* Properties of concurrent calls, under SpecThreads *)

\* the threads that hold a database
Holding == {t \in DOMAIN calls : calls[t].instance # 0}

\* C28: under every interleaving of two or more concurrent outer_product
\* calls that start with an empty database cache, CharacterDatabase is
\* constructed at most once and all the calls compute their cells from the
\* same instance.
C28_BuiltOnce ==
    /\ built <= 1
    /\ \A t, u \in Holding : calls[t].instance = calls[u].instance

\* what holds of the code: a call constructs at most once, every call that
\* holds a database holds one that was constructed, the cache keeps the
\* first instance stored, and the results do not depend on the instance
C28_BuiltOncePerCall ==
    /\ built <= MaxThreads
    /\ \A t \in Holding : calls[t].instance \in 1..built
    /\ db_cache # <<>> =>
           /\ cached_id \in 1..built
           /\ db_cache[1] = CharacterDatabase(NoMapping, bundled)
    /\ \A t, u \in DOMAIN calls :
           (/\ calls[t].pc = "done" /\ calls[u].pc = "done"
            /\ calls[t].radical_set = calls[u].radical_set
            /\ calls[t].rank = calls[u].rank)
               => calls[t].ret = calls[u].ret

\* two calls have returned results computed from two instances
TwoInstances ==
    /\ built = 2
    /\ calls[1].pc = "done" /\ calls[1].ret.ok
    /\ calls[2].pc = "done" /\ calls[2].ret.ok
    /\ calls[1].instance # calls[2].instance

----------------------------------------------------------------------------
(* Properties of a supplied mapping, under SpecDb *)

\* the database holds nothing: its length is 0 and every lookup is empty
HoldsNothing(d) ==
    /\ db_len(d) = 0
    /\ \A q \in IdsQueries : lookup_by_ids(d, q) = PyNone
    /\ \A c \in ComponentQueries : lookup_by_components(d, c) = {}
    /\ \A q \in CompositionQueries : lookup_by_composition(d, q) = {}
    /\ \A c \in CharQueries : get_ids(d, c) = PyNone

\* C29: a CharacterDatabase constructed with an explicitly supplied mapping
\* indexes exactly that mapping and nothing else; in particular an
\* explicitly supplied empty mapping gives a database of length 0 whose
\* every lookup is empty, not the bundled dataset.
C29_SuppliedMappingOnly ==
    (last.op = "CharacterDatabase" /\ last.ids_data.given) =>
        /\ db.char_to_ids = last.ids_data.items
        /\ last.ids_data.items = <<>> => HoldsNothing(db)

\* what holds of the code: a supplied mapping that is not empty is indexed
\* alone, whatever the bundled file holds; an empty one gives the database
\* of the bundled file
C29_NonEmptyMappingOnly ==
    (last.op = "CharacterDatabase" /\ last.ids_data.given) =>
        /\ last.ids_data.items # <<>> =>
               /\ db.char_to_ids = last.ids_data.items
               /\ db = CharacterDatabase(last.ids_data, <<>>)
        /\ last.ids_data.items = <<>> =>
               db = CharacterDatabase(NoMapping, bundled)

\* CharacterDatabase({}) has given the records of the bundled file
EmptyMappingGaveBundled ==
    /\ last.op = "CharacterDatabase"
    /\ last.ids_data = Mapping(<<>>)
    /\ bundled # <<>>
    /\ db_len(db) = Len(bundled)
    /\ db_len(db) > 0

----------------------------------------------------------------------------
(* Properties of an index of another length, under SpecTensor *)

\* C30: indexing a TensorResult with an index whose number of coordinates
\* differs from the rank, a bare integer, a shorter tuple or a longer
\* tuple, all coordinates inside [0, size), raises no error and returns the
\* empty set.
C30_OtherLengthIsEmpty ==
    (/\ last.op = "getitem"
     /\ Len(last.index) # last.tensor.rank
     /\ \A i \in DOMAIN last.index :
            0 <= last.index[i] /\ last.index[i] < last.tensor.size) =>
        /\ last.ret.ok
        /\ last.ret.value = {}

\* result[1] on the rank 2 result for 金 and 木, whose cell [1, 1] holds 林
C30_Witness ==
    /\ last.op = "getitem"
    /\ last.bare
    /\ last.index = <<1>>
    /\ last.tensor.radical_set = <<Jin, Mu>>
    /\ last.tensor.rank = 2
    /\ last.tensor.data[<<1, 1>>] = {Lin}
    /\ last.ret.ok
    /\ last.ret.value = {}

\* result[1, 1, 1] on the same result
LongerIndexRead ==
    /\ last.op = "getitem"
    /\ ~last.bare
    /\ last.index = <<1, 1, 1>>
    /\ last.tensor.rank = 2
    /\ last.ret = Ok({})

====
